---- MODULE Spec2Model ----
(***************************************************************************)
(* A model of the streaming runtime of the ACL UE4 plugin:                 *)
(*   - UE4DatabaseStreamer (Private/UE4DatabaseStreamer.h), the async      *)
(*     streamer of a database's bulk data;                                 *)
(*   - the lifecycle of UAnimationCompressionLibraryDatabase               *)
(*     (Private/AnimationCompressionLibraryDatabase.cpp): PostLoad,        *)
(*     StreamDatabaseIn, StreamDatabaseOut, BeginDestroy.                  *)
(*                                                                         *)
(* The game thread walks through each function one step at a time (pc);    *)
(* the I/O service completes reads concurrently.  check()/checkf() are     *)
(* fatal: a failed check aborts the process (pc = "crashed").              *)
(*                                                                         *)
(* Three specifications share the streamer's steps:                        *)
(*   Spec       a client calling the streamer's public interface directly, *)
(*              with any offset, size and flag;                            *)
(*   FairSpec   Spec with every call run to its end and every accepted     *)
(*              read completed;                                            *)
(*   AssetSpec  the database asset, whose database context is the          *)
(*              streamer's only client.                                    *)
(* The cook and the cooked build's decoding:                               *)
(*   CookSpec   PreSave in the editor, step by step, on members drawn from *)
(*              the project's sequences, then the cooked build's Bind      *)
(*              looking name hashes up in the offset table, and            *)
(*              DecompressPose/DecompressBone on what it bound.            *)
(* The editor:                                                             *)
(*   NullSpec   NullDatabaseStreamer, the streamer of the editor's         *)
(*              decoding, under a client calling its interface;            *)
(*   EditorSpec DecompressPose/DecompressBone of the editor, which stream  *)
(*              the database in or not by the asset's preview state;       *)
(*   BuildSpec  ExecuteBuild of the database's editor actions, on a        *)
(*              project whose sequences are edited between builds.         *)
(***************************************************************************)
EXTENDS Integers, Sequences, FiniteSets, TLC

\* Bounds of the model.
MaxCalls == 3
MaxOps == 3
MaxDecoders == 1
MaxClips == 3
MaxSaves == 2

\* Offset, Size and BulkDataSize are uint32 in the source.  TLC's integers are 32
\* bits wide, so the model's unsigned word has WordBits bits; a sum of two words
\* evaluated in twice the width (uint64 in the source) never wraps.
WordBits == 4
WordRange == 2 ^ WordBits

\* The running clip offset of PreSave is a uint32 as well; its model has OffsetBits
\* bits, enough for the layouts of MaxClips clips and few enough for a sum to wrap.
OffsetBits == 9
OffsetRange == 2 ^ OffsetBits

nullptr == 0

VARIABLES
    pc,                 \* position of the game thread
    cur,                \* the streamer call being executed
    ncalls,             \* streamer calls made so far
    streamer,           \* the streamer object: "none", "live", "freed"
    BulkDataSize,       \* UE4DatabaseStreamer::BulkDataSize
    BulkDataPtr,        \* UE4DatabaseStreamer::BulkDataPtr (nullptr or a buffer id)
    PendingIORequest,   \* UE4DatabaseStreamer::PendingIORequest (nullptr or a request id)
    bufs,               \* the heap's byte buffers, by id: live or freed, and the size
    reqs,               \* the I/O service's read requests, by id
    log,                \* what happened, in order
    asset,              \* the database asset: "none", "constructed", "loaded", "destroyed"
    DatabaseStreamer,   \* whether the asset's TUniquePtr holds the streamer
    DatabaseContext,    \* the asset's acl::database_context
    PreviewState,       \* the asset's editor preview state
    ticker,             \* the callbacks queued on the core ticker
    ticked,             \* the callbacks the running Tick has still to fire
    phase,              \* of the frame: "update" (animations update) or "tick" (the core ticker runs)
    decoding,           \* decode calls in progress (animation update)
    WithEditorOnlyData, \* the build's WITH_EDITORONLY_DATA
    nops,               \* StreamDatabaseIn / StreamDatabaseOut calls made so far
    cookpc,             \* position of PreSave: "none", "idle", "gather", "build", ...
    AnimSequences,      \* the asset's member sequences, sorted by path name
    SplitDB,            \* what ACL makes of the members: the size of the database
    CookedSequences,    \* PreSave's CookedSequences
    Allocations,        \* what PreSave holds of the ACL allocator
    Deallocated,        \* what the running PreSave gave back to it, in order
    Built,              \* the database the running PreSave built, and what it checked of it
    CookedAnimSequenceMappings, \* the asset's offset table: (Hash << 32) | Offset
    CompressedBytes,    \* the asset's consolidated buffer, byte by byte
    StreamableBulkData, \* the asset's bulk data, byte by byte
    overrun,            \* whether PreSave wrote beyond the end of CompressedBytes
    cooked,             \* the artifacts of each complete cook of the editor's session
    nsaves,             \* PreSave calls made in the editor's session
    outcome,            \* how the last PreSave returned
    binding,            \* what the last Bind found
    decompress,         \* what the last DecompressPose or DecompressBone of the bound clip did
    m_bulk_data,        \* NullDatabaseStreamer::m_bulk_data
    m_bulk_data_size,   \* NullDatabaseStreamer::m_bulk_data_size
    nullcalls,          \* the calls of the null streamer so far, the constructor's first
    Project,            \* the animation sequences of the editor's project, by path name
    MarkedDirty,        \* MarkPackageDirty calls on the database's package so far
    ExecutedBuild,      \* how the last ExecuteBuild went
    nbuilds,            \* ExecuteBuild calls made so far
    nedits              \* changes made to the project's sequences so far

streamerVars == <<pc, cur, ncalls, streamer, BulkDataSize, BulkDataPtr,
                  PendingIORequest, bufs, reqs, log>>

\* The editor's project and its Build action
buildVars == <<Project, MarkedDirty, ExecutedBuild, nbuilds, nedits>>

\* The state of the codec's decoding
codecVars == <<decompress, m_bulk_data, m_bulk_data_size, nullcalls>>

cookVars == <<cookpc, AnimSequences, SplitDB, CookedSequences, Allocations, Deallocated, Built,
              CookedAnimSequenceMappings, CompressedBytes, StreamableBulkData, overrun,
              cooked, nsaves, outcome, binding, codecVars, buildVars>>

assetVars == <<asset, DatabaseStreamer, PreviewState, ticker, ticked, phase, decoding,
               WithEditorOnlyData, nops, cookVars>>

vars == <<streamerVars, DatabaseContext, assetVars>>

\* An entry of the log: what happened, in which streamer call, with which value.
Ev(e, c, v) == [e |-> e, c |-> c, v |-> v]

NoCall == [op |-> "none", c |-> 0, Offset |-> 0, Size |-> 0, flag |-> FALSE, by |-> "none"]

\* The call record of a streamer call.
Call(op, c, Offset, Size, flag, by) ==
    [op |-> op, c |-> c, Offset |-> Offset, Size |-> Size, flag |-> flag, by |-> by]

\* The bulk data sizes a streamer is constructed with.
BulkSizes == {4, WordRange - 1}

\* The uint32 values a caller passes as Offset and as Size.
Offsets(total) == {0, total - 1, total, WordRange - 1}
Sizes(total) == {0, 1, total, (total + 1) % WordRange, WordRange - 1}

----------------------------------------------------------------------------
\* UE4DatabaseStreamer

\* The checks of the streamer, as the log numbers them.
OffsetOutside == 1       \* "Steam offset is outside of the bulk data range"
SizeTooLarge == 2        \* "Stream size is larger than the bulk data size"
RequestOutside == 3      \* "Streaming request is outside of the bulk data range"
AlreadyAllocated == 4    \* check(BulkDataPtr == nullptr)
NotAllocated == 5        \* check(BulkDataPtr != nullptr)

\* The three checkf with the sum evaluated in the word's width, where it wraps.
FailedCheckWrapping(Offset, Size, total) ==
    IF ~(Offset < total) THEN OffsetOutside
    ELSE IF ~(Size <= total) THEN SizeTooLarge
    ELSE IF ~((Offset + Size) % WordRange <= total) THEN RequestOutside
    ELSE 0

\* The three checkf of stream_in and stream_out, in order; 0 when all pass.
\* Offset and Size are uint32; the sum is evaluated in 64 bits.
FailedCheck(Offset, Size, total) ==
    IF ~(Offset < total) THEN OffsetOutside
    ELSE IF ~(Size <= total) THEN SizeTooLarge
    ELSE IF ~(Offset + Size <= total) THEN RequestOutside
    ELSE 0

\* The process aborts on a failed check.
Fatal(check) ==
    /\ pc' = "crashed"
    /\ log' = Append(log, Ev("fatal", cur.c, check))

\* get_bulk_data()
get_bulk_data == BulkDataPtr

\* A WaitForStreamingToComplete that returns without waiting and leaves the request.
SkipWaitForStreamingToComplete(here, next) ==
    /\ pc = here
    /\ pc' = next
    /\ UNCHANGED <<cur, ncalls, streamer, BulkDataSize, BulkDataPtr, PendingIORequest,
                   bufs, reqs, log, DatabaseContext, assetVars>>

\* A WaitForStreamingToComplete that waits for the request and deletes it, and keeps
\* its pointer.
WaitForStreamingToCompleteKeepPointer(here, next) ==
    /\ pc = here
    /\ pc' = next
    /\ IF PendingIORequest = nullptr
       THEN UNCHANGED <<PendingIORequest, reqs, log>>
       ELSE /\ reqs[PendingIORequest].st = "done"
            /\ reqs' = [reqs EXCEPT ![PendingIORequest].st = "deleted"]
            /\ UNCHANGED PendingIORequest
            /\ log' = Append(log, Ev("wait", cur.c, PendingIORequest))
    /\ UNCHANGED <<cur, ncalls, streamer, BulkDataSize, BulkDataPtr, bufs>>
    /\ UNCHANGED <<DatabaseContext, assetVars>>

\* WaitForStreamingToComplete(), entered at `here`, continuing at `next`:
\* WaitCompletion() returns once the request is complete.
WaitForStreamingToComplete(here, next) ==
    /\ pc = here
    /\ pc' = next
    /\ IF PendingIORequest = nullptr
       THEN UNCHANGED <<PendingIORequest, reqs, log>>
       ELSE /\ reqs[PendingIORequest].st = "done"
            /\ reqs' = [reqs EXCEPT ![PendingIORequest].st = "deleted"]
            /\ PendingIORequest' = nullptr
            /\ log' = Append(log, Ev("wait", cur.c, PendingIORequest))
    /\ UNCHANGED <<cur, ncalls, streamer, BulkDataSize, BulkDataPtr, bufs>>
    /\ UNCHANGED <<DatabaseContext, assetVars>>

\* stream_in, lines 51-55: entry and the three checks.
StreamInEnter(Offset, Size, CanAllocateBulkData, by) ==
    LET c == ncalls + 1
        entered == Append(log, Ev("stream_in", c, IF CanAllocateBulkData THEN 1 ELSE 0)) IN
    /\ ncalls' = c
    /\ cur' = Call("stream_in", c, Offset, Size, CanAllocateBulkData, by)
    /\ IF FailedCheck(Offset, Size, BulkDataSize) # 0
       THEN /\ pc' = "crashed"
            /\ log' = Append(entered, Ev("fatal", c, FailedCheck(Offset, Size, BulkDataSize)))
       ELSE /\ pc' = "si_wait"
            /\ log' = entered
    /\ UNCHANGED <<streamer, BulkDataSize, BulkDataPtr, PendingIORequest, bufs, reqs>>

\* stream_in, line 58
StreamInWait ==
    WaitForStreamingToComplete("si_wait", "si_alloc")

\* delete[] of a buffer.
Freed(b) == [bufs EXCEPT ![b].st = IF @ = "live" THEN "freed" ELSE "freed twice"]

\* A stream_in that replaces the buffer it finds allocated: delete[], then new.
StreamInAllocateReplaces ==
    /\ pc = "si_alloc"
    /\ pc' = "si_create"
    /\ IF cur.flag
       THEN IF BulkDataPtr # nullptr
            THEN /\ bufs' = Append(Freed(BulkDataPtr), [st |-> "live", size |-> BulkDataSize])
                 /\ BulkDataPtr' = Len(bufs) + 1
                 /\ log' = log \o <<Ev("free", cur.c, BulkDataPtr),
                                     Ev("alloc", cur.c, Len(bufs) + 1)>>
            ELSE /\ bufs' = Append(bufs, [st |-> "live", size |-> BulkDataSize])
                 /\ BulkDataPtr' = Len(bufs) + 1
                 /\ log' = Append(log, Ev("alloc", cur.c, Len(bufs) + 1))
       ELSE UNCHANGED <<BulkDataPtr, bufs, log>>
    /\ UNCHANGED <<cur, ncalls, streamer, BulkDataSize, PendingIORequest, reqs>>
    /\ UNCHANGED <<DatabaseContext, assetVars>>

\* A stream_in that allocates whenever there is no buffer, whatever the flag.
StreamInAllocateWhenNull ==
    /\ pc = "si_alloc"
    /\ IF cur.flag /\ BulkDataPtr # nullptr
       THEN /\ Fatal(AlreadyAllocated)
            /\ UNCHANGED <<BulkDataPtr, bufs>>
       ELSE IF BulkDataPtr = nullptr
            THEN /\ bufs' = Append(bufs, [st |-> "live", size |-> BulkDataSize])
                 /\ BulkDataPtr' = Len(bufs) + 1
                 /\ log' = Append(log, Ev("alloc", cur.c, Len(bufs) + 1))
                 /\ pc' = "si_create"
            ELSE /\ pc' = "si_create"
                 /\ UNCHANGED <<BulkDataPtr, bufs, log>>
    /\ UNCHANGED <<cur, ncalls, streamer, BulkDataSize, PendingIORequest, reqs>>
    /\ UNCHANGED <<DatabaseContext, assetVars>>

\* A stream_in that allocates without checking that there is no buffer yet.
StreamInAllocateUnchecked ==
    /\ pc = "si_alloc"
    /\ pc' = "si_create"
    /\ IF cur.flag
       THEN /\ bufs' = Append(bufs, [st |-> "live", size |-> BulkDataSize])
            /\ BulkDataPtr' = Len(bufs) + 1
            /\ log' = Append(log, Ev("alloc", cur.c, Len(bufs) + 1))
       ELSE UNCHANGED <<BulkDataPtr, bufs, log>>
    /\ UNCHANGED <<cur, ncalls, streamer, BulkDataSize, PendingIORequest, reqs>>
    /\ UNCHANGED <<DatabaseContext, assetVars>>

\* stream_in, lines 70-83: allocate the buffer on the first stream in request.
StreamInAllocate ==
    /\ pc = "si_alloc"
    /\ IF cur.flag
       THEN IF BulkDataPtr # nullptr
            THEN /\ Fatal(AlreadyAllocated)
                 /\ UNCHANGED <<BulkDataPtr, bufs>>
            ELSE /\ bufs' = Append(bufs, [st |-> "live", size |-> BulkDataSize])
                 /\ BulkDataPtr' = Len(bufs) + 1
                 /\ log' = Append(log, Ev("alloc", cur.c, Len(bufs) + 1))
                 /\ pc' = "si_create"
       ELSE /\ pc' = "si_create"
            /\ UNCHANGED <<BulkDataPtr, bufs, log>>
    /\ UNCHANGED <<cur, ncalls, streamer, BulkDataSize, PendingIORequest, reqs>>
    /\ UNCHANGED <<DatabaseContext, assetVars>>


\* The completion of a stream in request, as the database context handles it:
\* the request is over, and the data is resident if the read succeeded.
ContinuationIn(by, Success) ==
    IF by = "ctx"
    THEN DatabaseContext' = [DatabaseContext EXCEPT !.streaming = FALSE, !.resident = Success]
    ELSE UNCHANGED DatabaseContext

\* The completion of a stream out request, as the database context handles it.
ContinuationOut(by) ==
    IF by = "ctx"
    THEN DatabaseContext' = [DatabaseContext EXCEPT !.streaming = FALSE, !.resident = FALSE]
    ELSE UNCHANGED DatabaseContext

\* A stream_in that gives the buffer it allocated back when the read cannot be
\* started.
StreamInCreateRollsBack ==
    /\ pc = "si_create"
    /\ pc' = "idle"
    /\ cur' = NoCall
    /\ \E started \in BOOLEAN :
         IF started
         THEN /\ reqs' = Append(reqs, [st |-> "inflight", dest |-> BulkDataPtr,
                                       c |-> cur.c, by |-> cur.by,
                                       bWasCancelled |-> FALSE])
              /\ PendingIORequest' = Len(reqs) + 1
              /\ log' = log \o <<Ev("create", cur.c, Len(reqs) + 1), Ev("return", cur.c, 0)>>
              /\ UNCHANGED <<DatabaseContext, BulkDataPtr, bufs>>
         ELSE /\ PendingIORequest' = nullptr
              /\ log' = log \o <<Ev("create", cur.c, nullptr), Ev("cb", cur.c, 0),
                                  Ev("return", cur.c, 0)>>
              /\ ContinuationIn(cur.by, FALSE)
              /\ IF cur.flag
                 THEN /\ bufs' = Freed(BulkDataPtr)
                      /\ BulkDataPtr' = nullptr
                 ELSE UNCHANGED <<BulkDataPtr, bufs>>
              /\ UNCHANGED reqs
    /\ UNCHANGED <<ncalls, streamer, BulkDataSize, assetVars>>

\* A stream_in that calls Continuation itself although the read has started.
StreamInCreateNotifiesAsWell ==
    /\ pc = "si_create"
    /\ pc' = "idle"
    /\ cur' = NoCall
    /\ \E started \in BOOLEAN :
         IF started
         THEN /\ reqs' = Append(reqs, [st |-> "inflight", dest |-> BulkDataPtr,
                                       c |-> cur.c, by |-> cur.by,
                                       bWasCancelled |-> FALSE])
              /\ PendingIORequest' = Len(reqs) + 1
              /\ log' = log \o <<Ev("create", cur.c, Len(reqs) + 1), Ev("cb", cur.c, 1),
                                  Ev("return", cur.c, 0)>>
              /\ UNCHANGED DatabaseContext
         ELSE /\ PendingIORequest' = nullptr
              /\ log' = log \o <<Ev("create", cur.c, nullptr), Ev("cb", cur.c, 0),
                                  Ev("return", cur.c, 0)>>
              /\ ContinuationIn(cur.by, FALSE)
              /\ UNCHANGED reqs
    /\ UNCHANGED <<ncalls, streamer, BulkDataSize, BulkDataPtr, bufs, assetVars>>

\* A stream_in that hands the I/O service no destination for the read.
StreamInCreateNullDestination ==
    /\ pc = "si_create"
    /\ pc' = "idle"
    /\ cur' = NoCall
    /\ \E started \in BOOLEAN :
         IF started
         THEN /\ reqs' = Append(reqs, [st |-> "inflight", dest |-> nullptr,
                                       c |-> cur.c, by |-> cur.by,
                                       bWasCancelled |-> FALSE])
              /\ PendingIORequest' = Len(reqs) + 1
              /\ log' = log \o <<Ev("create", cur.c, Len(reqs) + 1), Ev("return", cur.c, 0)>>
              /\ UNCHANGED DatabaseContext
         ELSE /\ PendingIORequest' = nullptr
              /\ log' = log \o <<Ev("create", cur.c, nullptr), Ev("cb", cur.c, 0),
                                  Ev("return", cur.c, 0)>>
              /\ ContinuationIn(cur.by, FALSE)
              /\ UNCHANGED reqs
    /\ UNCHANGED <<ncalls, streamer, BulkDataSize, BulkDataPtr, bufs, assetVars>>

\* A stream_in that returns without calling Continuation when the read cannot be
\* started.
StreamInCreateSilentFailure ==
    /\ pc = "si_create"
    /\ pc' = "idle"
    /\ cur' = NoCall
    /\ \E started \in BOOLEAN :
         IF started
         THEN /\ reqs' = Append(reqs, [st |-> "inflight", dest |-> BulkDataPtr,
                                       c |-> cur.c, by |-> cur.by,
                                       bWasCancelled |-> FALSE])
              /\ PendingIORequest' = Len(reqs) + 1
              /\ log' = log \o <<Ev("create", cur.c, Len(reqs) + 1), Ev("return", cur.c, 0)>>
         ELSE /\ PendingIORequest' = nullptr
              /\ log' = log \o <<Ev("create", cur.c, nullptr), Ev("return", cur.c, 0)>>
              /\ UNCHANGED reqs
    /\ UNCHANGED <<ncalls, streamer, BulkDataSize, BulkDataPtr, bufs, DatabaseContext,
                   assetVars>>

\* stream_in, lines 85-92: fire off the read; the I/O service returns a request
\* handle, or nullptr when it cannot start the read.
StreamInCreate ==
    /\ pc = "si_create"
    /\ pc' = "idle"
    /\ cur' = NoCall
    /\ \E started \in BOOLEAN :
         IF started
         THEN /\ reqs' = Append(reqs, [st |-> "inflight", dest |-> BulkDataPtr,
                                       c |-> cur.c, by |-> cur.by,
                                       bWasCancelled |-> FALSE])
              /\ PendingIORequest' = Len(reqs) + 1
              /\ log' = log \o <<Ev("create", cur.c, Len(reqs) + 1), Ev("return", cur.c, 0)>>
              /\ UNCHANGED DatabaseContext
         ELSE /\ PendingIORequest' = nullptr
              /\ log' = log \o <<Ev("create", cur.c, nullptr), Ev("cb", cur.c, 0),
                                  Ev("return", cur.c, 0)>>
              /\ ContinuationIn(cur.by, FALSE)
              /\ UNCHANGED reqs
    /\ UNCHANGED <<ncalls, streamer, BulkDataSize, BulkDataPtr, bufs, assetVars>>

\* stream_out, lines 94-98: entry and the three checks.
StreamOutEnter(Offset, Size, CanDeallocateBulkData, by) ==
    LET c == ncalls + 1
        entered == Append(log, Ev("stream_out", c, IF CanDeallocateBulkData THEN 1 ELSE 0)) IN
    /\ ncalls' = c
    /\ cur' = Call("stream_out", c, Offset, Size, CanDeallocateBulkData, by)
    /\ IF FailedCheck(Offset, Size, BulkDataSize) # 0
       THEN /\ pc' = "crashed"
            /\ log' = Append(entered, Ev("fatal", c, FailedCheck(Offset, Size, BulkDataSize)))
       ELSE /\ pc' = "so_wait"
            /\ log' = entered
    /\ UNCHANGED <<streamer, BulkDataSize, BulkDataPtr, PendingIORequest, bufs, reqs>>

\* stream_out, line 101
StreamOutWait ==
    WaitForStreamingToComplete("so_wait", "so_free")

\* A stream_out that deallocates without checking that there is a buffer: delete[]
\* of nullptr does nothing.
StreamOutFreeUnchecked ==
    /\ pc = "so_free"
    /\ pc' = "idle"
    /\ cur' = NoCall
    /\ IF cur.flag /\ BulkDataPtr # nullptr
       THEN /\ bufs' = Freed(BulkDataPtr)
            /\ BulkDataPtr' = nullptr
            /\ log' = log \o <<Ev("free", cur.c, BulkDataPtr), Ev("cb", cur.c, 1),
                                Ev("return", cur.c, 0)>>
       ELSE /\ UNCHANGED <<bufs, BulkDataPtr>>
            /\ log' = log \o <<Ev("cb", cur.c, 1), Ev("return", cur.c, 0)>>
    /\ ContinuationOut(cur.by)
    /\ UNCHANGED <<ncalls, streamer, BulkDataSize, PendingIORequest, reqs, assetVars>>

\* A stream_out that notifies the caller before it frees the buffer.
StreamOutNotifyFirst ==
    /\ pc = "so_free"
    /\ IF cur.flag /\ BulkDataPtr = nullptr
       THEN /\ Fatal(NotAllocated)
            /\ UNCHANGED <<cur, BulkDataPtr, bufs, DatabaseContext>>
       ELSE /\ pc' = "idle"
            /\ cur' = NoCall
            /\ IF cur.flag
               THEN /\ bufs' = Freed(BulkDataPtr)
                    /\ BulkDataPtr' = nullptr
                    /\ log' = log \o <<Ev("cb", cur.c, 1), Ev("free", cur.c, BulkDataPtr),
                                        Ev("return", cur.c, 0)>>
               ELSE /\ UNCHANGED <<bufs, BulkDataPtr>>
                    /\ log' = log \o <<Ev("cb", cur.c, 1), Ev("return", cur.c, 0)>>
            /\ ContinuationOut(cur.by)
    /\ UNCHANGED <<ncalls, streamer, BulkDataSize, PendingIORequest, reqs, assetVars>>

\* A stream_out that frees the buffer and keeps its pointer.
StreamOutFreeKeepPointer ==
    /\ pc = "so_free"
    /\ IF cur.flag /\ BulkDataPtr = nullptr
       THEN /\ Fatal(NotAllocated)
            /\ UNCHANGED <<cur, BulkDataPtr, bufs, DatabaseContext>>
       ELSE /\ pc' = "idle"
            /\ cur' = NoCall
            /\ IF cur.flag
               THEN /\ bufs' = Freed(BulkDataPtr)
                    /\ UNCHANGED BulkDataPtr
                    /\ log' = log \o <<Ev("free", cur.c, BulkDataPtr), Ev("cb", cur.c, 1),
                                        Ev("return", cur.c, 0)>>
               ELSE /\ UNCHANGED <<bufs, BulkDataPtr>>
                    /\ log' = log \o <<Ev("cb", cur.c, 1), Ev("return", cur.c, 0)>>
            /\ ContinuationOut(cur.by)
    /\ UNCHANGED <<ncalls, streamer, BulkDataSize, PendingIORequest, reqs, assetVars>>

\* stream_out, lines 105-123: free the buffer on the last stream out request, then
\* notify the caller.
StreamOutFree ==
    /\ pc = "so_free"
    /\ IF cur.flag /\ BulkDataPtr = nullptr
       THEN /\ Fatal(NotAllocated)
            /\ UNCHANGED <<cur, BulkDataPtr, bufs, DatabaseContext>>
       ELSE /\ pc' = "idle"
            /\ cur' = NoCall
            /\ IF cur.flag
               THEN /\ bufs' = Freed(BulkDataPtr)
                    /\ BulkDataPtr' = nullptr
                    /\ log' = log \o <<Ev("free", cur.c, BulkDataPtr), Ev("cb", cur.c, 1),
                                        Ev("return", cur.c, 0)>>
               ELSE /\ UNCHANGED <<bufs, BulkDataPtr>>
                    /\ log' = log \o <<Ev("cb", cur.c, 1), Ev("return", cur.c, 0)>>
            /\ ContinuationOut(cur.by)
    /\ UNCHANGED <<ncalls, streamer, BulkDataSize, PendingIORequest, reqs, assetVars>>

\* A destructor that does not wait for the pending request.
DestructorNoWait ==
    /\ pc = "dtor_wait"
    /\ pc' = "dtor_free"
    /\ UNCHANGED <<cur, ncalls, streamer, BulkDataSize, BulkDataPtr, PendingIORequest,
                   bufs, reqs, log, DatabaseContext, assetVars>>

\* ~UE4DatabaseStreamer, line 38
DestructorWait ==
    WaitForStreamingToComplete("dtor_wait", "dtor_free")

\* ~UE4DatabaseStreamer, line 43: delete[] BulkDataPtr, and the object is gone.
DestructorFree ==
    /\ pc = "dtor_free"
    /\ pc' = "idle"
    /\ streamer' = "freed"
    /\ IF BulkDataPtr # nullptr
       THEN /\ bufs' = Freed(BulkDataPtr)
            /\ log' = log \o <<Ev("free", 0, BulkDataPtr), Ev("deleted", 0, 0)>>
       ELSE /\ UNCHANGED bufs
            /\ log' = Append(log, Ev("deleted", 0, 0))
    /\ UNCHANGED <<cur, ncalls, BulkDataSize, BulkDataPtr, PendingIORequest, reqs>>
    /\ UNCHANGED <<DatabaseContext, assetVars>>

----------------------------------------------------------------------------
\* The I/O service (FByteBulkData::CreateStreamingRequest, IBulkDataIORequest)

\* A read completes, cancelled or not, on the I/O thread: the request's callback
\* runs, AsyncFileCallBack of stream_in (lines 60-66), which calls
\* Continuation(!bWasCancelled).
IOCallback(r) ==
    /\ pc # "crashed"
    /\ reqs[r].st = "inflight"
    /\ \E bWasCancelled \in BOOLEAN :
         /\ reqs' = [reqs EXCEPT ![r].st = "called", ![r].bWasCancelled = bWasCancelled]
         /\ log' = Append(log, Ev("cb", reqs[r].c, IF bWasCancelled THEN 0 ELSE 1))
         /\ ContinuationIn(reqs[r].by, ~bWasCancelled)
    /\ UNCHANGED <<pc, cur, ncalls, streamer, BulkDataSize, BulkDataPtr,
                   PendingIORequest, bufs, assetVars>>

\* The request is complete once its callback has returned: WaitCompletion()
\* returns from then on.
IOComplete(r) ==
    /\ pc # "crashed"
    /\ reqs[r].st = "called"
    /\ reqs' = [reqs EXCEPT ![r].st = "done"]
    /\ UNCHANGED <<pc, cur, ncalls, streamer, BulkDataSize, BulkDataPtr,
                   PendingIORequest, bufs, log, DatabaseContext, assetVars>>

----------------------------------------------------------------------------
\* The asset's cooked data, where no cook takes place

\* A TArrayView<uint8> into CompressedBytes; the empty view at first.
View(at, size, clip) == [at |-> at, size |-> size, clip |-> clip]

\* A FACLDatabaseCompressedAnimData nothing is bound to.
NoBinding == [SequenceNameHash |-> 0, SequenceIndex |-> 0, OffsetsRead |-> <<>>,
              CompressedByteStream |-> View(0, 0, ""), DatabaseContext |-> FALSE,
              st |-> "none"]

\* No ExecuteBuild yet.
NoBuild == [st |-> "none", gathered |-> <<>>]

\* No project, no Build action.
NothingBuilt ==
    /\ Project = <<>>
    /\ MarkedDirty = 0
    /\ ExecutedBuild = NoBuild
    /\ nbuilds = 0
    /\ nedits = 0

\* No database built.
NoDatabase == [st |-> "none", table |-> {}, DO_GUARD_SLOW |-> FALSE, checked |-> {}]

\* No call of DecompressPose or DecompressBone yet.
NoDecompress == [routine |-> "none", st |-> "none", InitResult |-> FALSE,
                 ACLContext |-> "uninitialized", calls |-> 0,
                 Read |-> View(0, 0, ""), OutAtoms |-> "none"]

\* An asset that is never cooked: no member, no artifact.
NothingCooked ==
    /\ cookpc = "none"
    /\ AnimSequences = <<>>
    /\ SplitDB = [size |-> 0, bulk |-> 0]
    /\ CookedSequences = <<>>
    /\ Allocations = {}
    /\ Deallocated = <<>>
    /\ Built = NoDatabase
    /\ CookedAnimSequenceMappings = <<>>
    /\ CompressedBytes = <<>>
    /\ StreamableBulkData = <<>>
    /\ overrun = FALSE
    /\ cooked = <<>>
    /\ nsaves = 0
    /\ outcome = "none"
    /\ binding = NoBinding
    /\ decompress = NoDecompress
    /\ m_bulk_data = nullptr
    /\ m_bulk_data_size = 0
    /\ nullcalls = <<>>
    /\ NothingBuilt

----------------------------------------------------------------------------
\* A client of the streamer's public interface

NoContext == [init |-> FALSE, streaming |-> FALSE, resident |-> FALSE]

Init ==
    /\ pc = "idle"
    /\ cur = NoCall
    /\ ncalls = 0
    /\ streamer = "live"
    /\ BulkDataSize \in BulkSizes
    /\ BulkDataPtr = nullptr
    /\ PendingIORequest = nullptr
    /\ bufs = <<>>
    /\ reqs = <<>>
    /\ log = <<>>
    /\ asset = "none"
    /\ DatabaseStreamer = FALSE
    /\ DatabaseContext = NoContext
    /\ PreviewState = "None"
    /\ ticker = <<>>
    /\ ticked = <<>>
    /\ phase = "update"
    /\ decoding = 0
    /\ WithEditorOnlyData = FALSE
    /\ nops = 0
    /\ NothingCooked

ClientStreamIn ==
    /\ pc = "idle"
    /\ streamer = "live"
    /\ ncalls < MaxCalls
    /\ \E Offset \in Offsets(BulkDataSize), Size \in Sizes(BulkDataSize),
          CanAllocateBulkData \in BOOLEAN :
         StreamInEnter(Offset, Size, CanAllocateBulkData, "client")
    /\ UNCHANGED <<DatabaseContext, assetVars>>

ClientStreamOut ==
    /\ pc = "idle"
    /\ streamer = "live"
    /\ ncalls < MaxCalls
    /\ \E Offset \in Offsets(BulkDataSize), Size \in Sizes(BulkDataSize),
          CanDeallocateBulkData \in BOOLEAN :
         StreamOutEnter(Offset, Size, CanDeallocateBulkData, "client")
    /\ UNCHANGED <<DatabaseContext, assetVars>>

ClientWait ==
    /\ streamer = "live"
    /\ WaitForStreamingToComplete("idle", "idle")

ClientDestroy ==
    /\ pc = "idle"
    /\ streamer = "live"
    /\ pc' = "dtor_wait"
    /\ log' = Append(log, Ev("destroy", 0, 0))
    /\ UNCHANGED <<cur, ncalls, streamer, BulkDataSize, BulkDataPtr,
                   PendingIORequest, bufs, reqs, DatabaseContext, assetVars>>

----------------------------------------------------------------------------
\* UAnimationCompressionLibraryDatabase

\* The asset once constructed: no streamer, an empty database context.
AssetInit ==
    /\ pc = "idle"
    /\ cur = NoCall
    /\ ncalls = 0
    /\ streamer = "none"
    /\ BulkDataSize = 0
    /\ BulkDataPtr = nullptr
    /\ PendingIORequest = nullptr
    /\ bufs = <<>>
    /\ reqs = <<>>
    /\ log = <<>>
    /\ asset = "constructed"
    /\ DatabaseStreamer = FALSE
    /\ DatabaseContext = NoContext
    /\ PreviewState = "None"
    /\ ticker = <<>>
    /\ ticked = <<>>
    /\ phase = "update"
    /\ decoding = 0
    /\ WithEditorOnlyData \in BOOLEAN
    /\ nops = 0
    /\ cookpc = "none"
    /\ AnimSequences = <<>>
    /\ \/ /\ CompressedBytes = <<>>
          /\ SplitDB = [size |-> 0, bulk |-> 0]
       \/ /\ CompressedBytes = <<[src |-> "db", i |-> 0]>>
          /\ SplitDB \in {[size |-> 1, bulk |-> bulk] : bulk \in BulkSizes}
    /\ CookedSequences = <<>>
    /\ Allocations = {}
    /\ Deallocated = <<>>
    /\ Built = NoDatabase
    /\ CookedAnimSequenceMappings = <<>>
    /\ StreamableBulkData = <<>>
    /\ overrun = FALSE
    /\ cooked = <<>>
    /\ nsaves = 0
    /\ outcome = "none"
    /\ binding = NoBinding
    /\ decompress = NoDecompress
    /\ m_bulk_data = nullptr
    /\ m_bulk_data_size = 0
    /\ nullcalls = <<>>
    /\ NothingBuilt

\* A PostLoad that makes the streamer and binds the context whatever the asset
\* holds.
PostLoadUnconditional ==
    /\ pc = "idle"
    /\ asset = "constructed"
    /\ phase = "update"
    /\ asset' = "loaded"
    /\ pc' = "idle"
    /\ streamer' = "live"
    /\ BulkDataSize' = SplitDB.bulk
    /\ BulkDataPtr' = nullptr
    /\ PendingIORequest' = nullptr
    /\ DatabaseStreamer' = TRUE
    /\ DatabaseContext' = [init |-> TRUE, streaming |-> FALSE, resident |-> FALSE]
    /\ UNCHANGED <<cur, ncalls, bufs, reqs, log, PreviewState, ticker, ticked, phase,
                   decoding, WithEditorOnlyData, nops, cookVars>>

\* PostLoad, lines 225-239: with cooked bytes, the database at their start is
\* checked, the streamer is made for the bulk data size it records, and the
\* database context is initialized with both, which is checked too.  The asset
\* holds in SplitDB what the database at the start of CompressedBytes records.
PostLoad ==
    /\ pc = "idle"
    /\ asset = "constructed"
    /\ phase = "update"
    /\ IF Len(CompressedBytes) # 0
       THEN \E IsValid \in BOOLEAN, ContextInitResult \in BOOLEAN :
              IF ~IsValid
              THEN /\ pc' = "crashed"
                   /\ UNCHANGED <<asset, streamer, BulkDataSize, BulkDataPtr,
                                  PendingIORequest, DatabaseStreamer, DatabaseContext>>
              ELSE /\ streamer' = "live"
                   /\ BulkDataSize' = SplitDB.bulk
                   /\ BulkDataPtr' = nullptr
                   /\ PendingIORequest' = nullptr
                   /\ DatabaseStreamer' = TRUE
                   /\ IF ContextInitResult
                      THEN /\ DatabaseContext' = [init |-> TRUE, streaming |-> FALSE,
                                                  resident |-> FALSE]
                           /\ asset' = "loaded"
                           /\ pc' = "idle"
                      ELSE /\ pc' = "crashed"
                           /\ UNCHANGED <<asset, DatabaseContext>>
       ELSE /\ asset' = "loaded"
            /\ UNCHANGED <<pc, streamer, BulkDataSize, BulkDataPtr, PendingIORequest,
                           DatabaseStreamer, DatabaseContext>>
    /\ UNCHANGED <<cur, ncalls, bufs, reqs, log, PreviewState, ticker, ticked, phase,
                   decoding, WithEditorOnlyData, nops, cookVars>>

\* acl::database_context::stream_in(): a request in flight is left alone
\* (streaming), resident data needs nothing (done), otherwise the streamer is asked
\* for the whole bulk data, which it may allocate (dispatched).
ContextStreamIn ==
    IF DatabaseContext.streaming \/ DatabaseContext.resident
    THEN /\ log' = Append(log, Ev("ctx.stream_in", 0, decoding))
         /\ UNCHANGED <<pc, cur, ncalls, streamer, BulkDataSize, BulkDataPtr,
                        PendingIORequest, bufs, reqs, DatabaseContext>>
    ELSE /\ DatabaseContext' = [DatabaseContext EXCEPT !.streaming = TRUE]
         /\ LET c == ncalls + 1
                failed == FailedCheck(0, BulkDataSize, BulkDataSize)
                entered == log \o <<Ev("ctx.stream_in", 0, decoding), Ev("stream_in", c, 1)>> IN
            /\ ncalls' = c
            /\ cur' = Call("stream_in", c, 0, BulkDataSize, TRUE, "ctx")
            /\ pc' = IF failed # 0 THEN "crashed" ELSE "si_wait"
            /\ log' = IF failed # 0 THEN Append(entered, Ev("fatal", c, failed)) ELSE entered
         /\ UNCHANGED <<streamer, BulkDataSize, BulkDataPtr, PendingIORequest, bufs, reqs>>

\* acl::database_context::stream_out(): as stream_in, releasing the bulk data, which
\* the streamer may free.  `before` is what the caller logs first.
ContextStreamOut(before) ==
    IF DatabaseContext.streaming \/ ~DatabaseContext.resident
    THEN /\ log' = log \o before \o <<Ev("ctx.stream_out", 0, decoding)>>
         /\ UNCHANGED <<pc, cur, ncalls, streamer, BulkDataSize, BulkDataPtr,
                        PendingIORequest, bufs, reqs, DatabaseContext>>
    ELSE /\ DatabaseContext' = [DatabaseContext EXCEPT !.streaming = TRUE]
         /\ LET c == ncalls + 1
                failed == FailedCheck(0, BulkDataSize, BulkDataSize)
                entered == log \o before \o
                           <<Ev("ctx.stream_out", 0, decoding), Ev("stream_out", c, 1)>> IN
            /\ ncalls' = c
            /\ cur' = Call("stream_out", c, 0, BulkDataSize, TRUE, "ctx")
            /\ pc' = IF failed # 0 THEN "crashed" ELSE "so_wait"
            /\ log' = IF failed # 0 THEN Append(entered, Ev("fatal", c, failed)) ELSE entered
         /\ UNCHANGED <<streamer, BulkDataSize, BulkDataPtr, PendingIORequest, bufs, reqs>>

\* A preview switch of StreamDatabaseIn that only acts on ACLDBPreviewState::None.
PreviewAfterStreamInFromNone(state) ==
    IF state = "None" THEN "HighQuality" ELSE state

\* The switch of StreamDatabaseIn on the preview state, lines 287-301.
PreviewAfterStreamIn(state) ==
    CASE state = "HighQuality" -> state
      [] state = "LowQuality" -> "HighQuality"
      [] OTHER -> "HighQuality"

\* A preview switch of the stream-out callback that ends the preview when the high
\* quality is shown.
PreviewAfterStreamOutEndsPreview(state) ==
    CASE state = "HighQuality" -> "None"
      [] state = "LowQuality" -> state
      [] OTHER -> "LowQuality"

\* The switch of StreamOutFun on the preview state, lines 341-355.
PreviewAfterStreamOut(state) ==
    CASE state = "HighQuality" -> "LowQuality"
      [] state = "LowQuality" -> state
      [] OTHER -> "LowQuality"

\* StreamDatabaseIn, lines 255-304
StreamDatabaseIn ==
    /\ pc = "idle"
    /\ asset # "none"
    /\ phase = "update"
    /\ nops < MaxOps
    /\ nops' = nops + 1
    /\ IF DatabaseContext.init
       THEN /\ ContextStreamIn
            /\ UNCHANGED PreviewState
       ELSE /\ PreviewState' = IF WithEditorOnlyData
                              THEN PreviewAfterStreamIn(PreviewState)
                              ELSE PreviewState
            /\ UNCHANGED <<streamerVars, DatabaseContext>>
    /\ UNCHANGED <<asset, DatabaseStreamer, ticker, ticked, phase, decoding,
                   WithEditorOnlyData, cookVars>>

\* StreamOutFun, the callback StreamDatabaseOut queues (lines 311-359); `before` is
\* what the log holds of the callback's start.
StreamOutFun(before) ==
    IF DatabaseContext.init
    THEN /\ ContextStreamOut(before)
         /\ UNCHANGED PreviewState
    ELSE /\ PreviewState' = IF WithEditorOnlyData
                           THEN PreviewAfterStreamOut(PreviewState)
                           ELSE PreviewState
         /\ log' = log \o before
         /\ UNCHANGED <<pc, cur, ncalls, streamer, BulkDataSize, BulkDataPtr,
                        PendingIORequest, bufs, reqs, DatabaseContext>>

\* A StreamDatabaseOut that streams out inline instead of queueing.
StreamDatabaseOutInline ==
    /\ pc = "idle"
    /\ asset # "none"
    /\ phase = "update"
    /\ nops < MaxOps
    /\ nops' = nops + 1
    /\ StreamOutFun(<<Ev("StreamDatabaseOut", 0, nops + 1)>>)
    /\ UNCHANGED <<asset, DatabaseStreamer, ticker, ticked, phase, decoding,
                   WithEditorOnlyData, cookVars>>

\* StreamDatabaseOut, lines 306-363: the stream out is queued on the core ticker.
StreamDatabaseOut ==
    /\ pc = "idle"
    /\ asset # "none"
    /\ phase = "update"
    /\ nops < MaxOps
    /\ nops' = nops + 1
    /\ ticker' = Append(ticker, nops + 1)
    /\ log' = Append(log, Ev("StreamDatabaseOut", 0, nops + 1))
    /\ UNCHANGED <<pc, cur, ncalls, streamer, BulkDataSize, BulkDataPtr,
                   PendingIORequest, bufs, reqs, DatabaseContext>>
    /\ UNCHANGED <<asset, DatabaseStreamer, PreviewState, ticked, phase, decoding,
                   WithEditorOnlyData, cookVars>>

\* FTicker::Tick starts, once the frame's animation updates are done ("Run later,
\* once animations are done updating for sure", line 361): it fires the callbacks
\* queued before it.
TickBegin ==
    /\ pc = "idle"
    /\ phase = "update"
    /\ decoding = 0
    /\ ticker # <<>>
    /\ phase' = "tick"
    /\ ticked' = ticker
    /\ ticker' = <<>>
    /\ UNCHANGED <<streamerVars, DatabaseContext, asset, DatabaseStreamer, PreviewState,
                   decoding, WithEditorOnlyData, nops, cookVars>>

\* The sequence without its k-th element.
Without(seq, k) == SubSeq(seq, 1, k - 1) \o SubSeq(seq, k + 1, Len(seq))

\* A ticker that queues the callback again after it has run, as for a callback
\* that returns true.
TickerFireQueuesAgain ==
    /\ pc = "idle"
    /\ phase = "tick"
    /\ \E k \in DOMAIN ticked :
         /\ ticked' = Without(ticked, k)
         /\ ticker' = Append(ticker, ticked[k])
         /\ StreamOutFun(<<Ev("StreamOutFun", 0, ticked[k])>>)
    /\ UNCHANGED <<asset, DatabaseStreamer, phase, decoding, WithEditorOnlyData, nops, cookVars>>

\* FTicker::Tick fires one of the callbacks it has still to fire, in the order of
\* its own choosing (AddTicker, line 362, states none); StreamOutFun returns false
\* (line 358) and is not queued again.
TickerFire ==
    /\ pc = "idle"
    /\ phase = "tick"
    /\ \E k \in DOMAIN ticked :
         /\ ticked' = Without(ticked, k)
         /\ StreamOutFun(<<Ev("StreamOutFun", 0, ticked[k])>>)
    /\ UNCHANGED <<asset, DatabaseStreamer, ticker, phase, decoding, WithEditorOnlyData, nops, cookVars>>

TickEnd ==
    /\ pc = "idle"
    /\ phase = "tick"
    /\ ticked = <<>>
    /\ phase' = "update"
    /\ UNCHANGED <<streamerVars, DatabaseContext, asset, DatabaseStreamer, PreviewState,
                   ticker, ticked, decoding, WithEditorOnlyData, nops, cookVars>>

\* A decode call (DecompressPose, DecompressBone) starts and ends on a worker,
\* while animations update.
DecodeBegin ==
    /\ pc # "crashed"
    /\ phase = "update"
    /\ asset = "loaded"
    /\ decoding < MaxDecoders
    /\ decoding' = decoding + 1
    /\ UNCHANGED <<streamerVars, DatabaseContext, asset, DatabaseStreamer, PreviewState,
                   ticker, ticked, phase, WithEditorOnlyData, nops, cookVars>>

DecodeEnd ==
    /\ pc # "crashed"
    /\ decoding > 0
    /\ decoding' = decoding - 1
    /\ UNCHANGED <<streamerVars, DatabaseContext, asset, DatabaseStreamer, PreviewState,
                   ticker, ticked, phase, WithEditorOnlyData, nops, cookVars>>

\* BeginDestroy, lines 207-214: the garbage collector destroys the asset between
\* frames; the streamer is released from its TUniquePtr.
BeginDestroy ==
    /\ pc = "idle"
    /\ asset \in {"constructed", "loaded"}
    /\ phase = "update"
    /\ decoding = 0
    /\ asset' = "destroyed"
    /\ DatabaseStreamer' = FALSE
    /\ pc' = IF DatabaseStreamer THEN "bd_wait" ELSE "idle"
    /\ log' = Append(log, Ev("BeginDestroy", 0, 0))
    /\ UNCHANGED <<cur, ncalls, streamer, BulkDataSize, BulkDataPtr, PendingIORequest,
                   bufs, reqs, DatabaseContext, PreviewState, ticker, ticked, phase,
                   decoding, WithEditorOnlyData, nops, cookVars>>

\* BeginDestroy, line 215
BeginDestroyWait ==
    WaitForStreamingToComplete("bd_wait", "bd_reset")

\* A BeginDestroy that deletes the streamer without resetting the context.
BeginDestroyNoReset ==
    /\ pc = "bd_reset"
    /\ pc' = "dtor_wait"
    /\ UNCHANGED <<cur, ncalls, streamer, BulkDataSize, BulkDataPtr, PendingIORequest,
                   bufs, reqs, log, DatabaseContext, assetVars>>

\* BeginDestroy, lines 217-221: DatabaseContext.reset(), then delete Streamer, which
\* runs the destructor.
BeginDestroyReset ==
    /\ pc = "bd_reset"
    /\ pc' = "dtor_wait"
    /\ DatabaseContext' = NoContext
    /\ log' = Append(log, Ev("reset", 0, PendingIORequest))
    /\ UNCHANGED <<cur, ncalls, streamer, BulkDataSize, BulkDataPtr, PendingIORequest,
                   bufs, reqs, assetVars>>

IOCallbackRuns == \E r \in DOMAIN reqs : IOCallback(r)

IORequestCompletes == \E r \in DOMAIN reqs : IOComplete(r)

Next ==
    \/ ClientStreamIn
    \/ ClientStreamOut
    \/ ClientWait
    \/ ClientDestroy
    \/ StreamInWait
    \/ StreamInAllocate
    \/ StreamInCreate
    \/ StreamOutWait
    \/ StreamOutFree
    \/ DestructorWait
    \/ DestructorFree
    \/ IOCallbackRuns
    \/ IORequestCompletes

Spec == Init /\ [][Next]_vars

\* The streamer's caller runs each call it has entered to its end, and the I/O
\* service completes every read it has accepted, cancelled or not.
FairSpec ==
    /\ Spec
    /\ WF_vars(StreamInWait)
    /\ WF_vars(StreamInAllocate)
    /\ WF_vars(StreamInCreate)
    /\ WF_vars(IOCallbackRuns)
    /\ WF_vars(IORequestCompletes)

AssetNext ==
    \/ PostLoad
    \/ StreamDatabaseIn
    \/ StreamDatabaseOut
    \/ TickBegin
    \/ TickerFire
    \/ TickEnd
    \/ DecodeBegin
    \/ DecodeEnd
    \/ BeginDestroy
    \/ BeginDestroyWait
    \/ BeginDestroyReset
    \/ StreamInWait
    \/ StreamInAllocate
    \/ StreamInCreate
    \/ StreamOutWait
    \/ StreamOutFree
    \/ DestructorWait
    \/ DestructorFree
    \/ IOCallbackRuns
    \/ IORequestCompletes

AssetSpec == AssetInit /\ [][AssetNext]_vars

----------------------------------------------------------------------------
\* Cooking: UAnimationCompressionLibraryDatabase::PreSave, and the lookup of
\* FACLDatabaseCompressedAnimData::Bind in the cooked build

\* The animation sequences of the project, in path name order: the hash of the
\* sequence's name (GetTypeHash(AnimFName)), the size of the clip ACL builds for
\* it, whether its codec is a database codec, and the database that codec
\* references.  D has the name of B in another folder; E references another
\* database; G has another codec.
Sequences ==
    << [name |-> "A", SequenceNameHash |-> 3, size |-> 100,
        DatabaseCodec |-> TRUE, DatabaseAsset |-> "this"],
       [name |-> "B", SequenceNameHash |-> 1, size |-> 240,
        DatabaseCodec |-> TRUE, DatabaseAsset |-> "this"],
       [name |-> "C", SequenceNameHash |-> 2, size |-> 80,
        DatabaseCodec |-> TRUE, DatabaseAsset |-> "this"],
       [name |-> "D", SequenceNameHash |-> 1, size |-> 240,
        DatabaseCodec |-> TRUE, DatabaseAsset |-> "this"],
       [name |-> "E", SequenceNameHash |-> 4, size |-> 100,
        DatabaseCodec |-> TRUE, DatabaseAsset |-> "other"],
       [name |-> "F", SequenceNameHash |-> 5, size |-> 36,
        DatabaseCodec |-> TRUE, DatabaseAsset |-> "this"],
       [name |-> "G", SequenceNameHash |-> 6, size |-> 36,
        DatabaseCodec |-> FALSE, DatabaseAsset |-> "none"] >>

\* The sizes of the database ACL splits off (SplitDB->get_size()).
DatabaseSizes == {0, 20}

\* The values of an uninitialized byte.
Garbage == {0, 1}

\* The elements of Sequences at the places S, in order.
RECURSIVE Members(_)
Members(S) ==
    IF S = {} THEN <<>>
    ELSE LET last == CHOOSE i \in S : \A j \in S : j <= i IN
         Append(Members(S \ {last}), Sequences[last])

INDEX_NONE == -1

ClipAlignment == 16

\* acl::align_to of a uint32: the next multiple of the alignment, in the offset's
\* width.
align_to(value, alignment) ==
    (((value + (alignment - 1)) \div alignment) * alignment) % OffsetRange

\* An entry of the offset table with the offset in the high bits.
PackOffsetFirst(Hash, Offset) == Offset * OffsetRange + Hash

\* An entry of the offset table: (uint64(Hash) << 32) | uint64(Offset), the shift
\* being the width of the offset.
Pack(Hash, Offset) == Hash * OffsetRange + Offset

\* uint32(InValue >> 32), the projection of Bind's search
EntryHash(InValue) == InValue \div OffsetRange

\* An offset read without truncating the top bits.
EntryOffsetWhole(InValue) == InValue

\* uint32(InValue), "Truncate top 32 bits"
EntryOffset(InValue) == InValue % OffsetRange

\* A Sort that leaves the array as it is.
Unsorted(array) == array

\* TArray::Sort(): ascending by operator<.
RECURSIVE Sort(_)
Sort(array) ==
    IF array = <<>> THEN <<>>
    ELSE LET least == CHOOSE i \in DOMAIN array : \A j \in DOMAIN array : array[i] <= array[j]
             rest == [k \in 1..(Len(array) - 1) |-> IF k < least THEN array[k] ELSE array[k + 1]] IN
         <<array[least]>> \o Sort(rest)

\* Algo::LowerBoundBy: the first index whose projection is not less than Value, by
\* halving [Start, Start + Size).
RECURSIVE LowerBoundBy(_, _, _, _)
LowerBoundBy(Range, Value, Start, Size) ==
    IF Size = 0 THEN Start
    ELSE LET LeftoverSize == Size % 2
             Half == Size \div 2
             CheckIndex == Start + Half
             StartIfLess == CheckIndex + LeftoverSize IN
         LowerBoundBy(Range, Value,
                      IF EntryHash(Range[CheckIndex + 1]) < Value THEN StartIfLess ELSE Start,
                      Half)

\* A search that looks at the middle entry only.
BinarySearchMiddle(Range, Value) ==
    LET CheckIndex == Len(Range) \div 2 IN
    IF CheckIndex < Len(Range) /\ EntryHash(Range[CheckIndex + 1]) = Value
    THEN CheckIndex
    ELSE INDEX_NONE

\* Algo::BinarySearchBy: the index of the first entry whose projection is Value, or
\* INDEX_NONE.
BinarySearchBy(Range, Value) ==
    LET CheckIndex == LowerBoundBy(Range, Value, 0, Len(Range)) IN
    IF CheckIndex < Len(Range) /\ ~(Value < EntryHash(Range[CheckIndex + 1]))
    THEN CheckIndex
    ELSE INDEX_NONE

\* PreSave, lines 123 and 135-152, the first pass over the clips: the offset
\* recorded for clip n, and CompressedSequenceOffset once n clips are laid out.
RECURSIVE MappedEnd(_, _, _)

\* A first pass that records the offset without aligning it.
MappedOffsetUnaligned(Clips, CompressedDatabaseSize, n) ==
    MappedEnd(Clips, CompressedDatabaseSize, n - 1)

MappedOffset(Clips, CompressedDatabaseSize, n) ==
    align_to(MappedEnd(Clips, CompressedDatabaseSize, n - 1), ClipAlignment)

MappedEnd(Clips, CompressedDatabaseSize, n) ==
    IF n = 0 THEN align_to(CompressedDatabaseSize, ClipAlignment)
    ELSE (MappedOffset(Clips, CompressedDatabaseSize, n) + Clips[n].size) % OffsetRange

\* PreSave, lines 134-145: the offset table before the sort, in member order.
Mappings(Clips, CompressedDatabaseSize) ==
    [n \in DOMAIN Clips |->
        Pack(Clips[n].SequenceNameHash, MappedOffset(Clips, CompressedDatabaseSize, n))]

\* PreSave, lines 170-181, the second pass: where clip n is copied, and
\* CompressedSequenceOffset once n clips are copied.
RECURSIVE CopiedEnd(_, _, _)
CopiedOffset(Clips, CompressedDatabaseSize, n) ==
    align_to(CopiedEnd(Clips, CompressedDatabaseSize, n - 1), ClipAlignment)

CopiedEnd(Clips, CompressedDatabaseSize, n) ==
    IF n = 0 THEN align_to(CompressedDatabaseSize, ClipAlignment)
    ELSE (CopiedOffset(Clips, CompressedDatabaseSize, n) + Clips[n].size) % OffsetRange

\* The bytes of an object: each byte tells the object and its place in it.
Bytes(src, size) == [i \in 1..size |-> [src |-> src, i |-> i - 1]]

\* TArray::AddUninitialized: bytes nobody has written.
Uninitialized(size, garbage) == [i \in 1..size |-> [src |-> "uninitialized", i |-> garbage]]

\* FMemory::Memcpy(Buffer + At, Source, Len(Source)), as far as the buffer goes.
Memcpy(Buffer, At, Source) ==
    [p \in DOMAIN Buffer |->
        IF At < p /\ p <= At + Len(Source) THEN Source[p - At] ELSE Buffer[p]]

\* PreSave, lines 172-182: the buffer once n clips are copied.
RECURSIVE CopyClips(_, _, _, _)
CopyClips(Buffer, Clips, CompressedDatabaseSize, n) ==
    IF n = 0 THEN Buffer
    ELSE Memcpy(CopyClips(Buffer, Clips, CompressedDatabaseSize, n - 1),
                CopiedOffset(Clips, CompressedDatabaseSize, n),
                Bytes(Clips[n].name, Clips[n].size))

\* Whether a Memcpy of PreSave goes beyond the buffer of CompressedBytesSize bytes.
Overruns(Clips, CompressedDatabaseSize, CompressedBytesSize) ==
    \/ CompressedDatabaseSize > CompressedBytesSize
    \/ \E n \in DOMAIN Clips :
          CopiedOffset(Clips, CompressedDatabaseSize, n) + Clips[n].size > CompressedBytesSize

\* What PreSave holds of the ACL allocator.
Allocation(what, of) == [what |-> what, of |-> of]

ClipCopies == {Allocation("clip", n) : n \in DOMAIN CookedSequences}

\* The editor with an asset to cook: its members are sequences of the project in
\* path name order, as ExecuteBuild stores them; nothing is cooked yet.
CookInit ==
    /\ pc = "idle"
    /\ cur = NoCall
    /\ ncalls = 0
    /\ streamer = "none"
    /\ BulkDataSize = 0
    /\ BulkDataPtr = nullptr
    /\ PendingIORequest = nullptr
    /\ bufs = <<>>
    /\ reqs = <<>>
    /\ log = <<>>
    /\ asset = "constructed"
    /\ DatabaseStreamer = FALSE
    /\ DatabaseContext = NoContext
    /\ PreviewState = "None"
    /\ ticker = <<>>
    /\ ticked = <<>>
    /\ phase = "update"
    /\ decoding = 0
    /\ WithEditorOnlyData = TRUE
    /\ nops = 0
    /\ cookpc = "idle"
    /\ \E S \in SUBSET DOMAIN Sequences :
         /\ Cardinality(S) <= MaxClips
         /\ AnimSequences = Members(S)
    /\ \E size \in DatabaseSizes : SplitDB = [size |-> size, bulk |-> 4]
    /\ CookedSequences = <<>>
    /\ Allocations = {}
    /\ Deallocated = <<>>
    /\ Built = NoDatabase
    /\ CookedAnimSequenceMappings = <<>>
    /\ CompressedBytes = <<>>
    /\ StreamableBulkData = <<>>
    /\ overrun = FALSE
    /\ cooked = <<>>
    /\ nsaves = 0
    /\ outcome = "none"
    /\ binding = NoBinding
    /\ decompress = NoDecompress
    /\ m_bulk_data = nullptr
    /\ m_bulk_data_size = 0
    /\ nullcalls = <<>>
    /\ NothingBuilt

cookUnchanged == <<streamerVars, DatabaseContext, asset, DatabaseStreamer, PreviewState,
                   ticker, ticked, phase, decoding, nops, buildVars>>

\* A PreSave that keeps the artifacts it finds.
PreSaveKeep ==
    /\ cookpc = "idle"
    /\ nsaves < MaxSaves
    /\ nsaves' = nsaves + 1
    /\ CookedSequences' = <<>>
    /\ \E RequiresCookedData \in BOOLEAN :
         /\ cookpc' = IF RequiresCookedData THEN "gather" ELSE "idle"
         /\ outcome' = IF RequiresCookedData THEN "cooking" ELSE "not a cook"
    /\ Deallocated' = <<>>
    /\ UNCHANGED <<AnimSequences, SplitDB, Allocations, Built,
                   CompressedBytes, CookedAnimSequenceMappings, StreamableBulkData,
                   overrun, cooked, binding, WithEditorOnlyData, codecVars, cookUnchanged>>

\* PreSave, lines 19-28: clear any stale data, and go on when the save is a cook.
PreSave ==
    /\ cookpc = "idle"
    /\ nsaves < MaxSaves
    /\ nsaves' = nsaves + 1
    /\ CookedSequences' = <<>>
    /\ CompressedBytes' = <<>>
    /\ CookedAnimSequenceMappings' = <<>>
    /\ StreamableBulkData' = <<>>
    /\ \E RequiresCookedData \in BOOLEAN :
         /\ cookpc' = IF RequiresCookedData THEN "gather" ELSE "idle"
         /\ outcome' = IF RequiresCookedData THEN "cooking" ELSE "not a cook"
    /\ Deallocated' = <<>>
    /\ UNCHANGED <<AnimSequences, SplitDB, Allocations, Built, overrun,
                   cooked, binding, WithEditorOnlyData, codecVars, cookUnchanged>>

\* A test that takes every member for one to cook.
StaleNever(AnimSeq) == FALSE

\* PreSave, line 41: the member's codec is no database codec, or references
\* another database.
Stale(AnimSeq) == ~AnimSeq.DatabaseCodec \/ AnimSeq.DatabaseAsset # "this"

\* PreSave, lines 35-53: gather the members whose codec references this database;
\* return when there is nothing to cook.
PreSaveGather ==
    /\ cookpc = "gather"
    /\ CookedSequences' = SelectSeq(AnimSequences, LAMBDA AnimSeq : ~Stale(AnimSeq))
    /\ cookpc' = IF CookedSequences' = <<>> THEN "idle" ELSE "build"
    /\ outcome' = IF CookedSequences' = <<>> THEN "nothing to cook" ELSE outcome
    /\ UNCHANGED <<AnimSequences, SplitDB, Allocations, Built, Deallocated, CompressedBytes,
                   CookedAnimSequenceMappings, StreamableBulkData, overrun, cooked,
                   nsaves, binding, WithEditorOnlyData, codecVars, cookUnchanged>>

\* acl::build_database: the database registers every clip it is built from.
build_database(Tracks) ==
    [st |-> "built", table |-> {Tracks[n].name : n \in DOMAIN Tracks},
     DO_GUARD_SLOW |-> FALSE, checked |-> {}]

\* compressed_database::contains and database_context::contains: whether the clip
\* is registered in the table of the database, or of the database the context
\* was initialized against.
contains(database, clip) == clip.name \in database.table

\* acl::split_compressed_database_bulk_data: the half with the table, which the
\* bulk data is taken out of.
split_compressed_database_bulk_data(database) == [database EXCEPT !.st = "split"]

\* A list of the first of the sequences to cook only.
ACLCompressedTracksFirst == SubSeq(CookedSequences, 1, 1)

\* PreSave, lines 55-60: the clip of each sequence to cook.
ACLCompressedTracks == CookedSequences

\* PreSave, lines 55-95: acl::build_database makes the merged database and a copy
\* of each clip, or fails; a build that fails has validated its arguments only and
\* leaves the list of copies zeroed and MergedDB null. With DO_GUARD_SLOW, each
\* copy has to be contained in the merged database and in a database context
\* initialized against it.
PreSaveBuild ==
    /\ cookpc = "build"
    /\ \E MergeResult \in {"", "error"}, DO_GUARD_SLOW \in BOOLEAN :
         LET MergedDB == build_database(ACLCompressedTracks)
             DebugDatabaseContext == MergedDB
             Contained == {n \in DOMAIN ACLCompressedTracks :
                              /\ contains(MergedDB, ACLCompressedTracks[n])
                              /\ contains(DebugDatabaseContext, ACLCompressedTracks[n])} IN
         IF MergeResult # ""
         THEN /\ cookpc' = "idle"
              /\ outcome' = "failed to merge"
              /\ UNCHANGED <<Allocations, Built>>
         ELSE /\ cookpc' = IF DO_GUARD_SLOW /\ Contained # DOMAIN ACLCompressedTracks
                           THEN "crashed" ELSE "split"
              /\ UNCHANGED outcome
              /\ Allocations' = {Allocation("MergedDB", 0)} \cup ClipCopies
              /\ Built' = [MergedDB EXCEPT
                             !.DO_GUARD_SLOW = DO_GUARD_SLOW,
                             !.checked = IF DO_GUARD_SLOW
                                         THEN {ACLCompressedTracks[n].name : n \in Contained}
                                         ELSE {}]
    /\ UNCHANGED Deallocated
    /\ UNCHANGED <<AnimSequences, SplitDB, CookedSequences, CompressedBytes,
                   CookedAnimSequenceMappings, StreamableBulkData, overrun, cooked,
                   nsaves, binding, WithEditorOnlyData, codecVars, cookUnchanged>>

\* ACLAllocatorImpl.deallocate, of each allocation of the list in turn
RECURSIVE deallocate(_, _)
deallocate(Held, List) ==
    IF List = <<>> THEN Held ELSE deallocate(Held \ {Head(List)}, Tail(List))

\* The clip copies acl::build_database made, in the order of ACLDBCompressedTracks
ClipCopyList == [n \in DOMAIN CookedSequences |-> Allocation("clip", n)]

\* A split that keeps the clip copies when it fails.
PreSaveSplitKeepCopies ==
    /\ cookpc = "split"
    /\ \E SplitResult \in {"", "error"} :
         LET GivenBack == <<Allocation("MergedDB", 0)>> IN
         /\ Deallocated' = Deallocated \o GivenBack
         /\ IF SplitResult # ""
            THEN /\ cookpc' = "idle"
                 /\ outcome' = "failed to split"
                 /\ Built' = NoDatabase
                 /\ Allocations' = deallocate(Allocations, GivenBack)
            ELSE /\ cookpc' = "layout"
                 /\ UNCHANGED outcome
                 /\ Built' = split_compressed_database_bulk_data(Built)
                 /\ Allocations' = deallocate(Allocations, GivenBack)
                                        \cup {Allocation("SplitDB", 0), Allocation("SplitDBBulkData", 0)}
    /\ UNCHANGED <<AnimSequences, SplitDB, CookedSequences, CompressedBytes,
                   CookedAnimSequenceMappings, StreamableBulkData, overrun, cooked,
                   nsaves, binding, WithEditorOnlyData, codecVars, cookUnchanged>>

\* PreSave, lines 97-116: acl::split_compressed_database_bulk_data, the merged
\* database is freed, and on failure the clip copies are.
PreSaveSplit ==
    /\ cookpc = "split"
    /\ \E SplitResult \in {"", "error"} :
         LET GivenBack == IF SplitResult # ""
                      THEN <<Allocation("MergedDB", 0)>> \o ClipCopyList
                      ELSE <<Allocation("MergedDB", 0)>> IN
         /\ Deallocated' = Deallocated \o GivenBack
         /\ IF SplitResult # ""
            THEN /\ cookpc' = "idle"
                 /\ outcome' = "failed to split"
                 /\ Built' = NoDatabase
                 /\ Allocations' = deallocate(Allocations, GivenBack)
            ELSE /\ cookpc' = "layout"
                 /\ UNCHANGED outcome
                 /\ Built' = split_compressed_database_bulk_data(Built)
                 /\ Allocations' = deallocate(Allocations, GivenBack)
                                        \cup {Allocation("SplitDB", 0), Allocation("SplitDBBulkData", 0)}
    /\ UNCHANGED <<AnimSequences, SplitDB, CookedSequences, CompressedBytes,
                   CookedAnimSequenceMappings, StreamableBulkData, overrun, cooked,
                   nsaves, binding, WithEditorOnlyData, codecVars, cookUnchanged>>

\* PreSave, lines 120-159: the offset of each clip is recorded with the hash of its
\* name, then the table is sorted.
PreSaveLayout ==
    /\ cookpc = "layout"
    /\ cookpc' = "copy"
    /\ CookedAnimSequenceMappings' = Sort(Mappings(CookedSequences, SplitDB.size))
    /\ UNCHANGED <<AnimSequences, SplitDB, CookedSequences, Allocations, Built, Deallocated, CompressedBytes,
                   StreamableBulkData, overrun, cooked, nsaves, outcome, binding,
                   WithEditorOnlyData, codecVars, cookUnchanged>>

\* PreSave, lines 161-202: the buffer is made, of the size the first pass ended at
\* and uninitialized; the database and the clips are copied into it, the bulk data
\* into the bulk data store, and the allocations are freed.
PreSaveCopy ==
    /\ cookpc = "copy"
    /\ cookpc' = "idle"
    /\ outcome' = "cooked"
    /\ LET CompressedDatabaseSize == SplitDB.size
           CompressedBytesSize == MappedEnd(CookedSequences, CompressedDatabaseSize,
                                            Len(CookedSequences)) IN
       /\ \E garbage \in Garbage :
            CompressedBytes' =
                CopyClips(Memcpy(Uninitialized(CompressedBytesSize, garbage), 0,
                                 Bytes("db", CompressedDatabaseSize)),
                          CookedSequences, CompressedDatabaseSize, Len(CookedSequences))
       /\ overrun' = (overrun \/ Overruns(CookedSequences, CompressedDatabaseSize,
                                           CompressedBytesSize))
    /\ StreamableBulkData' = Bytes("bulk", SplitDB.bulk)
    /\ LET GivenBack == <<Allocation("SplitDB", 0), Allocation("SplitDBBulkData", 0)>>
                        \o ClipCopyList IN
       /\ Deallocated' = Deallocated \o GivenBack
       /\ Allocations' = deallocate(Allocations, GivenBack)
    /\ Built' = NoDatabase
    /\ cooked' = Append(cooked, [run |-> nsaves,
                                 CompressedBytes |-> CompressedBytes',
                                 CookedAnimSequenceMappings |-> CookedAnimSequenceMappings,
                                 StreamableBulkData |-> StreamableBulkData'])
    /\ UNCHANGED <<AnimSequences, SplitDB, CookedSequences, CookedAnimSequenceMappings,
                   nsaves, binding, WithEditorOnlyData, codecVars, cookUnchanged>>

\* Serialize, lines 241-253: the cooker saves the asset, which its PreSave for the
\* cooked platform came before, and the cooked build loads it, with the artifacts
\* of that PreSave; the editor's session ends there.
Serialize ==
    /\ cookpc = "idle"
    /\ nsaves > 0
    /\ outcome # "not a cook"
    /\ cookpc' = "runtime"
    /\ WithEditorOnlyData' = FALSE
    /\ cooked' = <<>>
    /\ nsaves' = 0
    /\ UNCHANGED <<AnimSequences, SplitDB, CookedSequences, Allocations, Built,
                   Deallocated, CompressedBytes, CookedAnimSequenceMappings,
                   StreamableBulkData, overrun, outcome, binding, codecVars,
                   cookUnchanged>>

\* The name hashes Bind is called with: of the sequences of the project, and
\* one that none of them has.
SequenceNameHashes ==
    {0} \cup {Sequences[s].SequenceNameHash : s \in DOMAIN Sequences}

\* acl::make_compressed_tracks at an offset of CompressedBytes: the clip whose first
\* byte is there, "" when there is none.
ClipAt(Offset) ==
    IF Offset < Len(CompressedBytes)
          /\ CompressedBytes[Offset + 1].i = 0
          /\ \E s \in DOMAIN Sequences : Sequences[s].name = CompressedBytes[Offset + 1].src
    THEN CompressedBytes[Offset + 1].src
    ELSE ""

\* compressed_tracks::get_size(), of the clip of that name
SizeOf(clip) ==
    LET s == CHOOSE s \in DOMAIN Sequences : Sequences[s].name = clip IN Sequences[s].size

\* Bind, lines 35-64, in the cooked build, of anim data nothing was decoded from
\* yet: the sequence's name hash is searched in the offset table; when it is
\* found, the offset is read and the clip at that offset is bound, which has to
\* be a valid clip.
Bind(SequenceNameHash) ==
    /\ cookpc = "runtime"
    /\ binding.st # "crashed"
    /\ LET SequenceIndex == BinarySearchBy(CookedAnimSequenceMappings, SequenceNameHash) IN
       IF SequenceIndex # INDEX_NONE
       THEN LET CompressedClipOffset ==
                    EntryOffset(CookedAnimSequenceMappings[SequenceIndex + 1])
                clip == ClipAt(CompressedClipOffset) IN
            binding' = [SequenceNameHash |-> SequenceNameHash,
                        SequenceIndex |-> SequenceIndex,
                        OffsetsRead |-> <<CompressedClipOffset>>,
                        CompressedByteStream |->
                            IF clip # "" THEN View(CompressedClipOffset, SizeOf(clip), clip)
                            ELSE View(0, 0, ""),
                        DatabaseContext |-> (clip # ""),
                        st |-> IF clip # "" THEN "bound" ELSE "crashed"]
       ELSE binding' = [SequenceNameHash |-> SequenceNameHash,
                        SequenceIndex |-> SequenceIndex,
                        OffsetsRead |-> <<>>,
                        CompressedByteStream |-> View(0, 0, ""),
                        DatabaseContext |-> FALSE,
                        st |-> "stale"]
    /\ decompress' = NoDecompress
    /\ UNCHANGED <<m_bulk_data, m_bulk_data_size, nullcalls>>
    /\ UNCHANGED <<cookpc, AnimSequences, SplitDB, CookedSequences, Allocations, Built, Deallocated,
                   CompressedBytes, CookedAnimSequenceMappings, StreamableBulkData,
                   overrun, cooked, nsaves, outcome, WithEditorOnlyData, cookUnchanged>>

BindSequence == \E SequenceNameHash \in SequenceNameHashes : Bind(SequenceNameHash)

\* A decompression context that is left as it is when the database cannot be used.
InitializeContextNoFallback(AnimData, InitResult) ==
    IF ~AnimData.DatabaseContext \/ ~InitResult THEN "uninitialized" ELSE "database"

\* ACLContext.initialize of the cooked build, part_001 lines 272-277: against the
\* database context the clip is bound to, and from the clip alone when there is
\* none or when that fails.
InitializeContext(AnimData, InitResult) ==
    IF ~AnimData.DatabaseContext \/ ~InitResult THEN "clip" ELSE "database"

\* A decode that validates the clip before it looks at the byte stream.
DecompressChecked(routine, InitResult) ==
    /\ cookpc = "runtime"
    /\ binding.st # "crashed"
    /\ decompress.st # "crashed"
    /\ LET AnimData == binding
           CompressedClipData == IF AnimData.CompressedByteStream.size = 0 THEN ""
                                 ELSE ClipAt(AnimData.CompressedByteStream.at) IN
       IF CompressedClipData = ""
       THEN decompress' = [routine |-> routine, st |-> "crashed",
                           InitResult |-> FALSE, ACLContext |-> "uninitialized", calls |-> 0,
                           Read |-> View(0, 0, ""), OutAtoms |-> "RefPose"]
       ELSE decompress' = [routine |-> routine,
                           st |-> "decompressed",
                           InitResult |-> (AnimData.DatabaseContext /\ InitResult),
                           ACLContext |-> InitializeContext(AnimData, InitResult),
                           calls |-> 1,
                           Read |-> AnimData.CompressedByteStream,
                           OutAtoms |-> CompressedClipData]
    /\ UNCHANGED <<cookpc, AnimSequences, SplitDB, CookedSequences, Allocations, Built,
                   Deallocated, CompressedBytes, CookedAnimSequenceMappings,
                   StreamableBulkData, overrun, cooked, nsaves, outcome, binding,
                   m_bulk_data, m_bulk_data_size, nullcalls,
                   WithEditorOnlyData, cookUnchanged>>

\* DecompressPose and DecompressBone of the cooked build, part_001 lines 226-336
\* (the #else branch): nothing is done for a clip with no byte stream, the output
\* stays as the caller passed it, reset to the reference pose; else the clip has
\* to be valid, the decompression context is initialized and the decode routine
\* of ACLDecompressionImpl.h is called.
Decompress(routine, InitResult) ==
    /\ cookpc = "runtime"
    /\ binding.st # "crashed"
    /\ decompress.st # "crashed"
    /\ LET AnimData == binding IN
       IF AnimData.CompressedByteStream.size = 0
       THEN decompress' = [routine |-> routine, st |-> "returned",
                           InitResult |-> FALSE,
                           ACLContext |-> "uninitialized", calls |-> 0,
                           Read |-> View(0, 0, ""), OutAtoms |-> "RefPose"]
       ELSE LET CompressedClipData == ClipAt(AnimData.CompressedByteStream.at) IN
            IF CompressedClipData = ""
            THEN decompress' = [routine |-> routine,
                                st |-> "crashed", InitResult |-> FALSE,
                                ACLContext |-> "uninitialized",
                                calls |-> 0, Read |-> View(0, 0, ""),
                                OutAtoms |-> "RefPose"]
            ELSE decompress' = [routine |-> routine,
                                st |-> "decompressed",
                                InitResult |-> (AnimData.DatabaseContext /\ InitResult),
                                ACLContext |-> InitializeContext(AnimData, InitResult),
                                calls |-> 1,
                                Read |-> AnimData.CompressedByteStream,
                                OutAtoms |-> CompressedClipData]
    /\ UNCHANGED <<cookpc, AnimSequences, SplitDB, CookedSequences, Allocations, Built,
                   Deallocated, CompressedBytes, CookedAnimSequenceMappings,
                   StreamableBulkData, overrun, cooked, nsaves, outcome, binding,
                   m_bulk_data, m_bulk_data_size, nullcalls,
                   WithEditorOnlyData, cookUnchanged>>

DecompressPose == \E InitResult \in BOOLEAN : Decompress("DecompressPose", InitResult)

DecompressBone == \E InitResult \in BOOLEAN : Decompress("DecompressBone", InitResult)

CookNext ==
    \/ PreSave
    \/ PreSaveGather
    \/ PreSaveBuild
    \/ PreSaveSplit
    \/ PreSaveLayout
    \/ PreSaveCopy
    \/ Serialize
    \/ BindSequence
    \/ DecompressPose
    \/ DecompressBone

CookSpec == CookInit /\ [][CookNext]_vars

----------------------------------------------------------------------------
\* The null streamer of the editor's decoding

MaxNullCalls == 2

\* The offsets and sizes the database context passes, and the sizes of bulk data
NullSizes == {0, 1, WordRange - 1}

\* The pointers to bulk data the null streamer is made with: none, or the bulk
\* data of the sequence's database
NullPointers == {nullptr, 1}

\* One call of the null streamer, and what its continuation was invoked with
NullCall(op, offset, size, continuation) ==
    [op |-> op, offset |-> offset, size |-> size, continuation |-> continuation]

\* No decoding yet: no null streamer.
NullInit ==
    /\ pc = "idle"
    /\ cur = NoCall
    /\ ncalls = 0
    /\ streamer = "none"
    /\ BulkDataSize = 0
    /\ BulkDataPtr = nullptr
    /\ PendingIORequest = nullptr
    /\ bufs = <<>>
    /\ reqs = <<>>
    /\ log = <<>>
    /\ asset = "none"
    /\ DatabaseStreamer = FALSE
    /\ DatabaseContext = NoContext
    /\ PreviewState = "None"
    /\ ticker = <<>>
    /\ ticked = <<>>
    /\ phase = "update"
    /\ decoding = 0
    /\ WithEditorOnlyData = TRUE
    /\ nops = 0
    /\ NothingCooked

nullUnchanged == <<streamerVars, DatabaseContext, asset, DatabaseStreamer, PreviewState,
                   ticker, ticked, phase, decoding, WithEditorOnlyData, nops,
                   cookpc, AnimSequences, SplitDB, CookedSequences, Allocations, Built,
                   Deallocated, CookedAnimSequenceMappings, CompressedBytes,
                   StreamableBulkData, overrun, cooked, nsaves, outcome, binding,
                   decompress, buildVars>>

\* The constructor, lines 229-233
NullDatabaseStreamer(bulk_data, bulk_data_size) ==
    /\ nullcalls = <<>>
    /\ NothingBuilt
    /\ m_bulk_data' = bulk_data
    /\ m_bulk_data_size' = bulk_data_size
    /\ nullcalls' = <<NullCall("NullDatabaseStreamer", bulk_data, bulk_data_size, <<>>)>>
    /\ UNCHANGED nullUnchanged

NullConstruct ==
    \E bulk_data \in NullPointers, bulk_data_size \in NullSizes :
        NullDatabaseStreamer(bulk_data, bulk_data_size)

\* is_initialized, line 235
NullIsInitialized == m_bulk_data # nullptr

\* get_bulk_data, line 237
NullGetBulkData == m_bulk_data

\* A stream_in that reports a failure when there is nothing to stream.
NullStreamInFails ==
    /\ nullcalls # <<>>
    /\ Len(nullcalls) <= MaxNullCalls
    /\ \E offset \in NullSizes, size \in NullSizes :
         nullcalls' = Append(nullcalls,
                             NullCall("stream_in", offset, size, <<m_bulk_data # nullptr>>))
    /\ UNCHANGED <<m_bulk_data, m_bulk_data_size, nullUnchanged>>

\* stream_in, lines 239-242: the continuation is invoked with true, in the call.
NullStreamIn ==
    /\ nullcalls # <<>>
    /\ Len(nullcalls) <= MaxNullCalls
    /\ \E offset \in NullSizes, size \in NullSizes :
         nullcalls' = Append(nullcalls, NullCall("stream_in", offset, size, <<TRUE>>))
    /\ UNCHANGED <<m_bulk_data, m_bulk_data_size, nullUnchanged>>

\* stream_out, lines 244-247: the same.
NullStreamOut ==
    /\ nullcalls # <<>>
    /\ Len(nullcalls) <= MaxNullCalls
    /\ \E offset \in NullSizes, size \in NullSizes :
         nullcalls' = Append(nullcalls, NullCall("stream_out", offset, size, <<TRUE>>))
    /\ UNCHANGED <<m_bulk_data, m_bulk_data_size, nullUnchanged>>

NullNext ==
    \/ NullConstruct
    \/ NullStreamIn
    \/ NullStreamOut

NullSpec == NullInit /\ [][NullNext]_vars

----------------------------------------------------------------------------
\* Decoding in the editor: DecompressPose and DecompressBone under
\* WITH_EDITORONLY_DATA, on the sequence's own clip and database

\* The values of ACLDBPreviewState.
PreviewStates == {"None", "HighQuality", "LowQuality"}

\* The editor with a database codec, whose DatabaseAsset is set (asset =
\* "loaded") or not (asset = "none"); the preview state is an editable property
\* of the asset.
EditorInit ==
    /\ pc = "idle"
    /\ cur = NoCall
    /\ ncalls = 0
    /\ streamer = "none"
    /\ BulkDataSize = 0
    /\ BulkDataPtr = nullptr
    /\ PendingIORequest = nullptr
    /\ bufs = <<>>
    /\ reqs = <<>>
    /\ log = <<>>
    /\ asset \in {"none", "loaded"}
    /\ DatabaseStreamer = FALSE
    /\ DatabaseContext = NoContext
    /\ PreviewState \in (IF asset = "none" THEN {"None"} ELSE PreviewStates)
    /\ ticker = <<>>
    /\ ticked = <<>>
    /\ phase = "update"
    /\ decoding = 0
    /\ WithEditorOnlyData = TRUE
    /\ nops = 0
    /\ NothingCooked

editorUnchanged == <<streamerVars, DatabaseContext, asset, DatabaseStreamer,
                     ticker, ticked, phase, decoding, WithEditorOnlyData,
                     cookpc, AnimSequences, SplitDB, CookedSequences, Allocations, Built,
                     Deallocated, CookedAnimSequenceMappings, CompressedBytes,
                     StreamableBulkData, overrun, cooked, nsaves, outcome, binding,
                     buildVars>>

\* The preview state is edited in the asset's details panel (EditAnywhere).
EditPreviewState ==
    /\ asset = "loaded"
    /\ decompress.st # "crashed"
    /\ nops < MaxOps
    /\ nops' = nops + 1
    /\ PreviewState' \in PreviewStates \ {PreviewState}
    /\ UNCHANGED <<decompress, m_bulk_data, m_bulk_data_size, nullcalls, editorUnchanged>>

\* The preview state a decode goes by, part_001 lines 247 and 302: that of the
\* codec's database asset, None when it has none.
DecodePreviewState == IF asset # "none" THEN PreviewState ELSE "None"

\* A decode that streams in only when the preview asks for the high quality.
StreamsInHighQualityOnly(state) ==
    CASE state = "HighQuality" -> TRUE
      [] state = "LowQuality" -> FALSE
      [] OTHER -> FALSE

\* The switch of the editor's decode on the preview state, part_001 lines
\* 248-262 and 303-317: whether SequenceDatabaseContext.stream_in() is called.
StreamsIn(state) ==
    CASE state = "HighQuality" -> TRUE
      [] state = "LowQuality" -> FALSE
      [] OTHER -> TRUE

\* acl::database_context::stream_in() of the sequence's context, which is new
\* and has nothing resident: it asks its streamer for the bulk data, once.
SequenceContextStreamIn(bulk_data_size) ==
    <<NullCall("stream_in", 0, bulk_data_size, <<TRUE>>)>>

\* DecompressPose / DecompressBone in the editor, part_001 lines 234-262 and
\* 289-317, then the decode (lines 280, 335): the clip is checked, a null streamer
\* and a database context are made for the sequence's own database, the
\* decompression context is initialized with both, the context is streamed in or
\* not by the preview state, and the clip is decoded.
EditorDecompress(routine) ==
    /\ decompress.st # "crashed"
    /\ nops < MaxOps
    /\ nops' = nops + 1
    /\ \E s \in DOMAIN Sequences, IsClipValid \in BOOLEAN, bulk_data_size \in NullSizes :
         /\ Sequences[s].DatabaseCodec
         /\ IF ~IsClipValid
            THEN /\ decompress' = [routine |-> routine, st |-> "crashed",
                                   InitResult |-> FALSE, ACLContext |-> "uninitialized",
                                   calls |-> 0, Read |-> View(0, 0, ""),
                                   OutAtoms |-> "none"]
                 /\ UNCHANGED <<m_bulk_data, m_bulk_data_size, nullcalls>>
            ELSE /\ m_bulk_data' = 1
                 /\ m_bulk_data_size' = bulk_data_size
                 /\ nullcalls' =
                      <<NullCall("NullDatabaseStreamer", 1, bulk_data_size, <<>>)>> \o
                      (IF StreamsIn(DecodePreviewState)
                       THEN SequenceContextStreamIn(bulk_data_size)
                       ELSE <<>>)
                 /\ decompress' = [routine |-> routine, st |-> "decompressed",
                                   InitResult |-> TRUE, ACLContext |-> "database",
                                   calls |-> 1,
                                   Read |-> View(0, Sequences[s].size, Sequences[s].name),
                                   OutAtoms |-> Sequences[s].name]
    /\ UNCHANGED <<PreviewState, editorUnchanged>>

EditorDecompressPose == EditorDecompress("DecompressPose")

EditorDecompressBone == EditorDecompress("DecompressBone")

EditorNext ==
    \/ EditPreviewState
    \/ EditorDecompressPose
    \/ EditorDecompressBone

EditorSpec == EditorInit /\ [][EditorNext]_vars

----------------------------------------------------------------------------
\* The editor's Build action: FAssetTypeActions_AnimationCompressionLibraryDatabase

MaxBuilds == 2
MaxEdits == 1

\* The path names of the project's animation sequences, in ascending order.
PathNames == <<"A", "B", "C">>

\* The place of a path name in that order.
PathIndex(name) == CHOOSE i \in DOMAIN PathNames : PathNames[i] = name

\* What a sequence of the project can be: whether it lives in the transient
\* package, whether it has bone compression settings, and the codecs of those:
\* a database codec that references this database ("this") or another database
\* ("other"), or a codec of another class ("none").
SequenceStates ==
    { [Transient |-> FALSE, BoneCompressionSettings |-> FALSE, Codecs |-> <<>>],
      [Transient |-> FALSE, BoneCompressionSettings |-> TRUE, Codecs |-> <<"this">>],
      [Transient |-> FALSE, BoneCompressionSettings |-> TRUE, Codecs |-> <<"other">>],
      [Transient |-> FALSE, BoneCompressionSettings |-> TRUE, Codecs |-> <<"none", "this">>],
      [Transient |-> FALSE, BoneCompressionSettings |-> TRUE, Codecs |-> <<"this", "this">>],
      [Transient |-> TRUE, BoneCompressionSettings |-> TRUE, Codecs |-> <<"this">>] }

\* The orders TObjectIterator can go over the sequences in.
IterationOrders ==
    {order \in [DOMAIN PathNames -> DOMAIN PathNames] :
        \A i, j \in DOMAIN PathNames : i # j => order[i] # order[j]}

\* The editor with a project and a new database asset, which has no member.
BuildInit ==
    /\ pc = "idle"
    /\ cur = NoCall
    /\ ncalls = 0
    /\ streamer = "none"
    /\ BulkDataSize = 0
    /\ BulkDataPtr = nullptr
    /\ PendingIORequest = nullptr
    /\ bufs = <<>>
    /\ reqs = <<>>
    /\ log = <<>>
    /\ asset = "constructed"
    /\ DatabaseStreamer = FALSE
    /\ DatabaseContext = NoContext
    /\ PreviewState = "None"
    /\ ticker = <<>>
    /\ ticked = <<>>
    /\ phase = "update"
    /\ decoding = 0
    /\ WithEditorOnlyData = TRUE
    /\ nops = 0
    /\ cookpc = "none"
    /\ AnimSequences = <<>>
    /\ SplitDB = [size |-> 0, bulk |-> 0]
    /\ CookedSequences = <<>>
    /\ Allocations = {}
    /\ Deallocated = <<>>
    /\ Built = NoDatabase
    /\ CookedAnimSequenceMappings = <<>>
    /\ CompressedBytes = <<>>
    /\ StreamableBulkData = <<>>
    /\ overrun = FALSE
    /\ cooked = <<>>
    /\ nsaves = 0
    /\ outcome = "none"
    /\ binding = NoBinding
    /\ decompress = NoDecompress
    /\ m_bulk_data = nullptr
    /\ m_bulk_data_size = 0
    /\ nullcalls = <<>>
    /\ Project \in [DOMAIN PathNames -> SequenceStates]
    /\ MarkedDirty = 0
    /\ ExecutedBuild = NoBuild
    /\ nbuilds = 0
    /\ nedits = 0

buildUnchanged == <<streamerVars, DatabaseContext, asset, DatabaseStreamer, PreviewState,
                    ticker, ticked, phase, decoding, WithEditorOnlyData, nops,
                    cookpc, SplitDB, CookedSequences, Allocations, Built, Deallocated,
                    CookedAnimSequenceMappings, CompressedBytes, StreamableBulkData,
                    overrun, cooked, nsaves, outcome, binding, codecVars>>

\* The user changes a sequence of the project: its compression settings, or the
\* sequence is made or deleted.
EditSequence ==
    /\ nedits < MaxEdits
    /\ nedits' = nedits + 1
    /\ \E i \in DOMAIN Project, state \in SequenceStates :
         /\ Project[i] # state
         /\ Project' = [Project EXCEPT ![i] = state]
    /\ UNCHANGED <<AnimSequences, MarkedDirty, ExecutedBuild, nbuilds, buildUnchanged>>

\* ExecuteBuild, lines 87-94: the sequence is added once for each codec of its
\* settings that is a database codec referencing the database.
GatherCodecs(name, Codecs) ==
    LET Matching == SelectSeq(Codecs, LAMBDA Codec : Codec = "this") IN
    [k \in DOMAIN Matching |-> name]

\* ExecuteBuild, lines 70-95: the sequences are gone over in the order of the
\* iterator, from the n-th on; those of the transient package and those without
\* settings are skipped.
RECURSIVE Gather(_, _)
Gather(order, n) ==
    IF n > Len(order) THEN <<>>
    ELSE LET AnimSeq == Project[order[n]] IN
         IF AnimSeq.Transient \/ ~AnimSeq.BoneCompressionSettings
         THEN Gather(order, n + 1)
         ELSE GatherCodecs(PathNames[order[n]], AnimSeq.Codecs) \o Gather(order, n + 1)

\* FCompareObjectNames, lines 103-109
FCompareObjectNames(Lhs, Rhs) == PathIndex(Lhs) < PathIndex(Rhs)

\* TArray::Sort with FCompareObjectNames, line 110
RECURSIVE SortByPathName(_)
SortByPathName(array) ==
    IF array = <<>> THEN <<>>
    ELSE LET first == CHOOSE i \in DOMAIN array :
                          \A j \in DOMAIN array : ~FCompareObjectNames(array[j], array[i])
             rest == [k \in 1..(Len(array) - 1) |->
                         IF k < first THEN array[k] ELSE array[k + 1]] IN
         <<array[first]>> \o SortByPathName(rest)

\* A build that takes every gathered list for a changed one.
IsDirtyAlways(Members_, Gathered) == TRUE

\* ExecuteBuild, lines 112-131: whether the sorted list differs from the members.
IsDirty(Members_, Gathered) ==
    \/ Len(Members_) # Len(Gathered)
    \/ \E SeqIdx \in DOMAIN Gathered : Members_[SeqIdx] # Gathered[SeqIdx]

\* ExecuteBuild, lines 61-139
ExecuteBuild ==
    /\ nbuilds < MaxBuilds
    /\ nbuilds' = nbuilds + 1
    /\ \E DatabasePtrIsValid \in BOOLEAN, order \in IterationOrders :
         LET Gathered == SortByPathName(Gather(order, 1)) IN
         IF ~DatabasePtrIsValid
         THEN /\ ExecutedBuild' = [st |-> "invalid", gathered |-> <<>>]
              /\ UNCHANGED <<AnimSequences, MarkedDirty>>
         ELSE IF Len(Gathered) = 0
         THEN /\ ExecutedBuild' = [st |-> "nothing gathered", gathered |-> Gathered]
              /\ UNCHANGED <<AnimSequences, MarkedDirty>>
         ELSE IF IsDirty(AnimSequences, Gathered)
         THEN /\ ExecutedBuild' = [st |-> "swapped", gathered |-> Gathered]
              /\ AnimSequences' = Gathered
              /\ MarkedDirty' = MarkedDirty + 1
         ELSE /\ ExecutedBuild' = [st |-> "same", gathered |-> Gathered]
              /\ UNCHANGED <<AnimSequences, MarkedDirty>>
    /\ UNCHANGED <<Project, nedits, buildUnchanged>>

BuildNext ==
    \/ EditSequence
    \/ ExecuteBuild

BuildSpec == BuildInit /\ [][BuildNext]_vars

----------------------------------------------------------------------------
\* Reading the log

\* Whether the log holds the entry at some place.
Logged(e, c, v) == \E i \in DOMAIN log : log[i] = Ev(e, c, v)

\* The places of the log where `e` happened in call c.
Places(e, c) == {i \in DOMAIN log : log[i].e = e /\ log[i].c = c}

\* The place where call c entered the streamer, and what was called.
Entry(c) == CHOOSE i \in DOMAIN log : log[i].e \in {"stream_in", "stream_out"} /\ log[i].c = c

Calls == {log[i].c : i \in {k \in DOMAIN log : log[k].e \in {"stream_in", "stream_out"}}}

\* Whether the resident buffer is allocated before place i, by the log: more
\* allocations than deallocations.
AllocatedBefore(i) ==
    Cardinality({k \in 1..(i - 1) : log[k].e = "alloc"}) >
    Cardinality({k \in 1..(i - 1) : log[k].e = "free"})

\* A request the I/O service has not completed yet.
Incomplete(r) == reqs[r].st \in {"inflight", "called"}

----------------------------------------------------------------------------
\* C1: within one streamer at most one read request is pending at any time: a
\* read request is created only after every earlier request's completion callback
\* has run and the streamer has waited for that request.
C1_OneReadPending ==
    /\ Cardinality({r \in DOMAIN reqs : Incomplete(r)}) <= 1
    /\ \A i, j \in DOMAIN log :
         (j < i /\ log[i].e = "create" /\ log[i].v # nullptr
                /\ log[j].e = "create" /\ log[j].v # nullptr)
         => \E k, w \in (j + 1)..(i - 1) :
                /\ k < w
                /\ log[k].e = "cb" /\ log[k].c = log[j].c
                /\ log[w].e = "wait" /\ log[w].v = log[j].v

\* A stream_in entered while the earlier read was in flight has created its request.
C1_Witness ==
    \E j, e, k, i \in DOMAIN log :
        /\ j < e /\ e < k /\ k < i
        /\ log[j].e = "create" /\ log[j].v # nullptr
        /\ log[e].e = "stream_in"
        /\ log[k].e = "cb" /\ log[k].c = log[j].c
        /\ log[i].e = "create" /\ log[i].c = log[e].c /\ log[i].v # nullptr

\* C2: the resident buffer is never freed while a read into it is in flight:
\* stream_out and the destructor reach their delete[] only with no request
\* pending.
C2_NoFreeWhileReading ==
    /\ \A r \in DOMAIN reqs :
         (Incomplete(r) /\ reqs[r].dest # nullptr) => bufs[reqs[r].dest].st = "live"
    /\ pc \in {"so_free", "dtor_free"} =>
         /\ PendingIORequest = nullptr
         /\ \A r \in DOMAIN reqs : ~Incomplete(r)

\* stream_out with can_deallocate, entered while a read into the buffer was in
\* flight, has freed the buffer.
C2_Witness ==
    \E e, k, f \in DOMAIN log :
        /\ e < k /\ k < f
        /\ log[e].e = "stream_out" /\ log[e].v = 1
        /\ log[k].e = "cb"
        /\ \E r \in DOMAIN reqs : reqs[r].c = log[k].c /\ reqs[r].dest = log[f].v
        /\ log[f].e = "free" /\ log[f].c = log[e].c

\* C3: BeginDestroy waits for the pending request, then resets the database
\* context, then deletes the streamer: the context is reset with no request
\* pending, the streamer's destructor runs only after the reset, and the streamer
\* is never freed with a request in flight or the context still bound.
C3_DestroyOrder ==
    /\ streamer = "freed" =>
         /\ \A r \in DOMAIN reqs : ~Incomplete(r)
         /\ ~DatabaseContext.init
    /\ pc \in {"dtor_wait", "dtor_free"} =>
         /\ ~DatabaseContext.init
         /\ \A r \in DOMAIN reqs : ~Incomplete(r)
    /\ \A i \in DOMAIN log :
         /\ log[i].e = "reset" =>
              /\ log[i].v = nullptr
              /\ \E b \in 1..(i - 1) : log[b].e = "BeginDestroy"
         /\ log[i].e = "deleted" => \E k \in 1..(i - 1) : log[k].e = "reset"

\* BeginDestroy began with a read in flight, waited for it, reset the context and
\* freed the streamer.
C3_Witness ==
    /\ streamer = "freed"
    /\ \E b, k, w, s, d \in DOMAIN log :
        /\ b < k /\ k < w /\ w < s /\ s < d
        /\ log[b].e = "BeginDestroy"
        /\ log[k].e = "cb"
        /\ log[w].e = "wait" /\ log[w].c = 0
        /\ log[s].e = "reset"
        /\ log[d].e = "deleted"

\* C4: StreamDatabaseOut only queues a callback: the database context's stream_out
\* is called only by a queued callback that the ticker fires, the streamer's
\* stream_out and its deallocation run only inside the tick, and no decode call is
\* in progress at any of these moments.
C4_StreamOutDeferred ==
    /\ \A i \in DOMAIN log :
         /\ log[i].e = "ctx.stream_out" =>
              /\ i > 1
              /\ log[i - 1].e = "StreamOutFun"
              /\ log[i].v = 0
         /\ log[i].e = "StreamOutFun" =>
              \E q \in 1..(i - 1) : log[q] = Ev("StreamDatabaseOut", 0, log[i].v)
         /\ log[i].e = "stream_out" =>
              /\ i > 1
              /\ log[i - 1].e = "ctx.stream_out"
    /\ pc \in {"so_wait", "so_free"} => (phase = "tick" /\ decoding = 0)
    /\ \A q \in DOMAIN ticker : Logged("StreamDatabaseOut", 0, ticker[q])

\* A callback queued by StreamDatabaseOut has run and freed the resident buffer.
C4_Witness ==
    \E q, f, o, d \in DOMAIN log :
        /\ q < f /\ f < o /\ o < d
        /\ log[q].e = "StreamDatabaseOut"
        /\ log[f] = Ev("StreamOutFun", 0, log[q].v)
        /\ log[o].e = "stream_out"
        /\ log[d].e = "free" /\ log[d].c = log[o].c

\* C5: as long as no stream_in with can_allocate=true has been called, stream_in
\* with can_allocate=false allocates nothing: get_bulk_data returns null and the
\* heap holds no buffer of the streamer.
C5_NoAllocateWithoutFlag ==
    (\A i \in DOMAIN log : log[i].e = "stream_in" => log[i].v = 0)
    => (get_bulk_data = nullptr /\ bufs = <<>>)

\* A stream_in with can_allocate=false, the first call on the streamer, has gone
\* as far as issuing its read and returned.
C5_Witness ==
    /\ Len(log) >= 3
    /\ log[1] = Ev("stream_in", 1, 0)
    /\ log[2].e = "create"
    /\ log[3] = Ev("return", 1, 0)
    /\ get_bulk_data = nullptr

\* C6: a stream_out with can_deallocate=true that follows one that freed the
\* buffer, with no allocation in between, fails check(BulkDataPtr != nullptr): it
\* frees nothing and notifies nobody, and no buffer is ever freed twice.
C6_NoDoubleDeallocate ==
    /\ \A b \in DOMAIN bufs :
         /\ bufs[b].st # "freed twice"
         /\ Cardinality({i \in DOMAIN log : log[i].e = "free" /\ log[i].v = b}) <= 1
    /\ \A c1, c2 \in Calls :
         ( /\ c1 < c2
           /\ log[Entry(c1)] = Ev("stream_out", c1, 1)
           /\ log[Entry(c2)] = Ev("stream_out", c2, 1)
           /\ Places("free", c1) # {}
           /\ \A k \in Entry(c1)..Entry(c2) : log[k].e # "alloc"
           /\ (cur.c # c2 \/ pc = "crashed") )
         => /\ \E v \in {OffsetOutside, SizeTooLarge, RequestOutside, NotAllocated} :
                   Logged("fatal", c2, v)
            /\ FailedCheck(cur.Offset, cur.Size, BulkDataSize) = 0
                   => Logged("fatal", c2, NotAllocated)
            /\ Places("free", c2) = {}
            /\ Places("cb", c2) = {}

\* The second of two stream_out calls with can_deallocate=true has passed the
\* bounds checks and failed on the unallocated buffer.
C6_Witness ==
    /\ pc = "crashed"
    /\ \E f \in DOMAIN log :
         /\ log[f].e = "free"
         /\ log[f + 1] = Ev("cb", log[f].c, 1)
         /\ log[f + 2] = Ev("return", log[f].c, 0)
         /\ log[f + 3] = Ev("stream_out", log[f].c + 1, 1)
         /\ log[Len(log)] = Ev("fatal", log[f].c + 1, NotAllocated)

\* C7: stream_in with can_allocate=true on an unallocated buffer allocates a buffer
\* of the bulk data size right before it issues the read; on an allocated buffer
\* it fails check(BulkDataPtr == nullptr) and allocates nothing, so the streamer
\* never has two live buffers.
C7_AllocateOnlyWhenUnallocated ==
    /\ Cardinality({b \in DOMAIN bufs : bufs[b].st = "live"}) <= 1
    /\ \A b \in DOMAIN bufs : bufs[b].size = BulkDataSize
    /\ \A c \in Calls :
         LET e == Entry(c) IN
         ( /\ log[e] = Ev("stream_in", c, 1)
           /\ \A v \in {OffsetOutside, SizeTooLarge, RequestOutside} : ~Logged("fatal", c, v)
           /\ (cur.c # c \/ pc \in {"si_create", "crashed"}) )
         => IF AllocatedBefore(e)
            THEN /\ Logged("fatal", c, AlreadyAllocated)
                 /\ Places("alloc", c) = {}
                 /\ Places("create", c) = {}
            ELSE /\ Cardinality(Places("alloc", c)) = 1
                 /\ ~Logged("fatal", c, AlreadyAllocated)
                 /\ \A i \in Places("create", c) :
                      /\ log[i - 1].e = "alloc" /\ log[i - 1].c = c
                      /\ log[i].v # nullptr => reqs[log[i].v].dest = log[i - 1].v

\* A stream_in with can_allocate=true has found the buffer allocated and failed.
C7_Witness ==
    /\ pc = "crashed"
    /\ cur.op = "stream_in"
    /\ log[Len(log)] = Ev("fatal", cur.c, AlreadyAllocated)
    /\ BulkDataPtr # nullptr
    /\ Len(bufs) = 1

\* The bounds a request has to meet, in unbounded arithmetic.
InBulkData(Offset, Size) ==
    /\ Offset < BulkDataSize
    /\ Size <= BulkDataSize
    /\ Offset + Size <= BulkDataSize

\* C8: stream_in and stream_out abort on every request that is outside the bulk
\* data (offset >= size of the bulk data, size > it, or offset + size > it, the sum
\* not wrapping) before they allocate, read, free or notify; a request inside the
\* bulk data passes the three checks.
C8_BoundsChecked ==
    cur.op \in {"stream_in", "stream_out"} =>
        IF InBulkData(cur.Offset, cur.Size)
        THEN \A v \in {OffsetOutside, SizeTooLarge, RequestOutside} :
                 ~Logged("fatal", cur.c, v)
        ELSE /\ pc = "crashed"
             /\ log[Len(log)].e = "fatal"
             /\ log[Len(log)].c = cur.c
             /\ log[Len(log)].v \in {OffsetOutside, SizeTooLarge, RequestOutside}
             /\ Entry(cur.c) = Len(log) - 1
             /\ \A e \in {"alloc", "create", "free", "cb", "wait"} : Places(e, cur.c) = {}

\* A request whose offset and size are each in range, and whose sum is beyond the
\* bulk data and beyond the word's range, has been refused.
C8_Witness ==
    /\ pc = "crashed"
    /\ cur.Offset < BulkDataSize
    /\ cur.Size <= BulkDataSize
    /\ cur.Offset + cur.Size >= WordRange
    /\ log[Len(log)] = Ev("fatal", cur.c, RequestOutside)

\* C9: when the I/O service returns no request handle, stream_in calls the
\* completion with failure before it returns, once, and leaves no request pending.
C9_SynchronousFailure ==
    \A i \in DOMAIN log :
        (log[i].e = "create" /\ log[i].v = nullptr) =>
            /\ i + 2 <= Len(log)
            /\ log[i + 1] = Ev("cb", log[i].c, 0)
            /\ log[i + 2] = Ev("return", log[i].c, 0)
            /\ Places("cb", log[i].c) = {i + 1}
            /\ \A r \in DOMAIN reqs : reqs[r].c # log[i].c
            /\ i + 2 = Len(log) => PendingIORequest = nullptr

\* A stream_in that waited for an earlier request has failed to start its read.
C9_Witness ==
    /\ Len(log) >= 4
    /\ log[Len(log) - 3].e = "wait"
    /\ log[Len(log) - 2].e = "create" /\ log[Len(log) - 2].v = nullptr
    /\ log[Len(log) - 1].e = "cb" /\ log[Len(log) - 1].v = 0
    /\ log[Len(log)].e = "return"
    /\ PendingIORequest = nullptr

\* C10: stream_out creates no read request; it calls its completion exactly once,
\* right before it returns, after the deallocation when there is one, and with no
\* request pending.
C10_StreamOutSynchronous ==
    /\ \A r \in DOMAIN reqs : log[Entry(reqs[r].c)].e = "stream_in"
    /\ \A c \in Calls :
         log[Entry(c)].e = "stream_out" =>
            /\ Places("create", c) = {}
            /\ Cardinality(Places("cb", c)) <= 1
            /\ \A i \in Places("cb", c) :
                 /\ log[i].v = 1
                 /\ i + 1 <= Len(log)
                 /\ log[i + 1] = Ev("return", c, 0)
                 /\ log[Entry(c)].v = 1 => (log[i - 1].e = "free" /\ log[i - 1].c = c)
                 /\ \A f \in Places("free", c) : f = i - 1
            /\ \A i \in Places("return", c) : Places("cb", c) = {i - 1}
            /\ (Places("return", c) # {} /\ log[Len(log)] = Ev("return", c, 0))
                 => PendingIORequest = nullptr

\* A stream_out has waited for a read, freed the buffer, notified and returned.
C10_Witness ==
    /\ Len(log) >= 4
    /\ log[Len(log) - 3].e = "wait"
    /\ log[Len(log) - 2].e = "free"
    /\ log[Len(log) - 1].e = "cb"
    /\ log[Len(log)].e = "return"
    /\ log[Len(log) - 3].c = log[Len(log)].c

\* The buffers of the heap that are allocated and not freed.
LiveBuffers == {b \in DOMAIN bufs : bufs[b].st = "live"}

\* C11: as long as the streamer exists, get_bulk_data returns null exactly when the
\* resident buffer is not allocated, which is so at first and after every
\* stream_out with can_deallocate=true, and the one allocated buffer otherwise.
C11_GetBulkData ==
    streamer = "live" =>
        /\ (get_bulk_data = nullptr) <=> (LiveBuffers = {})
        /\ get_bulk_data # nullptr => LiveBuffers = {get_bulk_data}
        /\ (get_bulk_data = nullptr) <=> ~AllocatedBefore(Len(log) + 1)
        /\ log = <<>> => get_bulk_data = nullptr
        /\ \A c \in Calls :
             (log[Entry(c)] = Ev("stream_out", c, 1) /\ log[Len(log)] = Ev("return", c, 0))
             => get_bulk_data = nullptr

\* A stream_out with can_deallocate=true has freed the allocated buffer and
\* returned: get_bulk_data returns null again.
C11_Witness ==
    /\ streamer = "live"
    /\ Len(log) >= 3
    /\ log[Len(log)].e = "return"
    /\ log[Len(log) - 2].e = "free" /\ log[Len(log) - 2].c = log[Len(log)].c
    /\ bufs # <<>>
    /\ get_bulk_data = nullptr

\* The steps in which a WaitForStreamingToComplete called by stream_in, stream_out,
\* the destructor or BeginDestroy returns.
WaitReturns ==
    <<pc, pc'>> \in {<<"si_wait", "si_alloc">>, <<"so_wait", "so_free">>,
                     <<"dtor_wait", "dtor_free">>, <<"bd_wait", "bd_reset">>}

\* The steps in which a WaitForStreamingToComplete that found a request returns.
WaitedForRequest ==
    /\ Len(log') = Len(log) + 1
    /\ log'[Len(log')].e = "wait"

\* C12: WaitForStreamingToComplete returns only when no request is pending (the
\* request it found is complete and deleted), and called with no request pending,
\* a second time in a row included, it changes nothing in the streamer's state.
C12_WaitIdempotent ==
    [][ /\ (WaitReturns \/ WaitedForRequest \/ ClientWait) =>
              /\ PendingIORequest' = nullptr
              /\ \A r \in DOMAIN reqs' : reqs'[r].st \notin {"inflight", "called", "done"}
        /\ ((WaitReturns \/ ClientWait) /\ PendingIORequest = nullptr) =>
              UNCHANGED <<cur, ncalls, streamer, BulkDataSize, BulkDataPtr,
                          PendingIORequest, bufs, reqs, log>>
        /\ WaitedForRequest =>
              /\ PendingIORequest # nullptr
              /\ reqs[PendingIORequest].st = "done"
      ]_vars

\* The client's call of WaitForStreamingToComplete has waited for a read and
\* returned: no request is pending, and the next call finds none.
C12_Witness ==
    /\ pc = "idle"
    /\ streamer = "live"
    /\ log # <<>>
    /\ log[Len(log)].e = "wait" /\ log[Len(log)].c = 0
    /\ PendingIORequest = nullptr

\* The stream_in calls whose read failed: not started, or completed as cancelled.
FailedReads == {c \in Calls : log[Entry(c)].e = "stream_in" /\ Logged("cb", c, 0)}

\* C13: after a stream_in whose read failed the streamer issues no read on its
\* own: every read request is created by a stream_in call, one per call at most;
\* and the next explicit stream_in, called as the failed one was and inside the
\* bulk data, issues the read again.
C13_FailedReadRetried ==
    /\ \A i \in DOMAIN log :
         log[i].e = "create" =>
            /\ log[i].c \in Calls
            /\ log[Entry(log[i].c)].e = "stream_in"
            /\ Entry(log[i].c) < i
            /\ Places("create", log[i].c) = {i}
    /\ \A c \in FailedReads :
         LET retry == c + 1 IN
         ( /\ retry \in Calls
           /\ log[Entry(retry)] = [log[Entry(c)] EXCEPT !.c = retry]
           /\ \A k \in Places("cb", c) : k < Entry(retry)
           /\ \A v \in {OffsetOutside, SizeTooLarge, RequestOutside} :
                  ~Logged("fatal", retry, v)
           /\ (cur.c # retry \/ pc = "crashed") )
         => Places("create", retry) # {}

----------------------------------------------------------------------------
\* Reading the offset table

\* The high and the low half of a packed entry.
HighBits(entry) == entry \div OffsetRange
LowBits(entry) == entry % OffsetRange

\* Whether the table is sorted ascending by hash.
SortedByHash(T) == \A i, j \in DOMAIN T : i < j => HighBits(T[i]) <= HighBits(T[j])

\* C14: for every sorted offset table and every hash, the lookup of Bind returns
\* the offset recorded for the hash, the low bits of the first entry that has the
\* hash, when the hash is in the table; otherwise it returns INDEX_NONE and reads
\* no offset.
C14_Lookup ==
    (binding.st # "none" /\ SortedByHash(CookedAnimSequenceMappings)) =>
        LET T == CookedAnimSequenceMappings
            h == binding.SequenceNameHash
            found == {i \in DOMAIN T : HighBits(T[i]) = h} IN
        IF found # {}
        THEN /\ binding.SequenceIndex + 1 \in found
             /\ \A i \in found : binding.SequenceIndex + 1 <= i
             /\ binding.OffsetsRead = <<LowBits(T[binding.SequenceIndex + 1])>>
             /\ binding.st = "bound" => binding.CompressedByteStream.at = binding.OffsetsRead[1]
        ELSE /\ binding.SequenceIndex = INDEX_NONE
             /\ binding.OffsetsRead = <<>>
             /\ binding.st = "stale"

\* Bind has found its hash in the last entry of a table of three.
C14_Witness ==
    /\ binding.st = "bound"
    /\ Len(CookedAnimSequenceMappings) = 3
    /\ binding.SequenceIndex = 2
    /\ binding.OffsetsRead # <<0>>

\* Whether the last PreSave has run to its end as a cook.
CookComplete ==
    /\ cookpc \in {"idle", "runtime"}
    /\ outcome = "cooked"

\* C15: after a cooking PreSave the offset table is sorted ascending by packed
\* value and so by name hash, it has one entry for each cooked clip, and the high
\* and the low half of that entry are the clip's name hash and the offset PreSave
\* computed for the clip.
C15_TableSorted ==
    LET T == CookedAnimSequenceMappings
        Clips == CookedSequences IN
    /\ CookComplete => (T # <<>> /\ Len(T) = Len(Clips))
    /\ T # <<>> =>
         /\ \A i, j \in DOMAIN T : i < j => T[i] <= T[j]
         /\ SortedByHash(T)
         /\ \E place \in [DOMAIN Clips -> DOMAIN T] :
              /\ \A m, n \in DOMAIN Clips : m # n => place[m] # place[n]
              /\ \A n \in DOMAIN Clips :
                   /\ HighBits(T[place[n]]) = Clips[n].SequenceNameHash
                   /\ LowBits(T[place[n]]) = MappedOffset(Clips, SplitDB.size, n)

\* A cook of three clips is complete whose order by hash is not the member order.
C15_Witness ==
    /\ CookComplete
    /\ Len(CookedAnimSequenceMappings) = 3
    /\ \E m, n \in DOMAIN CookedSequences :
         m < n /\ CookedSequences[m].SequenceNameHash > CookedSequences[n].SequenceNameHash

\* C16: for every list of clip sizes and every size of the database, the layout of
\* PreSave gives each clip an offset that is a multiple of 16, places the first clip
\* at or after the end of the database, and has offset[n] + size(clip n) <=
\* offset[n + 1] for the clips n, n + 1 in layout order.
C16_LayoutDisjoint ==
    CookedAnimSequenceMappings # <<>> =>
        LET Clips == CookedSequences
            offset == [n \in DOMAIN Clips |-> MappedOffset(Clips, SplitDB.size, n)] IN
        /\ \A n \in DOMAIN Clips : offset[n] % ClipAlignment = 0
        /\ offset[1] >= SplitDB.size
        /\ \A n \in DOMAIN Clips :
             n + 1 \in DOMAIN Clips => offset[n] + Clips[n].size <= offset[n + 1]

\* C17: padding comes before a clip only, never after the last one: the size of
\* the consolidated buffer is the last clip's offset plus the last clip's size,
\* not rounded up to 16.
C17_NoTrailingPadding ==
    CookComplete =>
        LET Clips == CookedSequences
            last == Len(Clips) IN
        Len(CompressedBytes) = MappedOffset(Clips, SplitDB.size, last) + Clips[last].size

\* C18: cooking the three clips A, B, C of 100, 240 and 80 bytes with a database of
\* size 0 records the offsets 0, 112 and 352, puts each clip at its offset, and the
\* lookup of each clip's name hash returns that clip's offset.
C18_EndToEnd ==
    LET T == CookedAnimSequenceMappings
        expected == <<0, 112, 352>> IN
    ( /\ Len(AnimSequences) = 3
      /\ \A n \in 1..3 : AnimSequences[n].name = <<"A", "B", "C">>[n]
      /\ \A n \in 1..3 : AnimSequences[n].size = <<100, 240, 80>>[n]
      /\ SplitDB.size = 0 )
    => /\ T # <<>> =>
            \A n \in 1..3 :
                \E i \in DOMAIN T :
                    /\ HighBits(T[i]) = AnimSequences[n].SequenceNameHash
                    /\ LowBits(T[i]) = expected[n]
       /\ CookComplete =>
            /\ Len(CompressedBytes) = 432
            /\ \A n \in 1..3 :
                 CompressedBytes[expected[n] + 1] = [src |-> AnimSequences[n].name, i |-> 0]
       /\ \A n \in 1..3 :
            (CookComplete /\ binding.st # "none"
                /\ binding.SequenceNameHash = AnimSequences[n].SequenceNameHash)
            => /\ binding.st = "bound"
               /\ binding.OffsetsRead = <<expected[n]>>
               /\ binding.CompressedByteStream =
                      View(expected[n], AnimSequences[n].size, AnimSequences[n].name)

\* The three clips are cooked and the lookup of C's name hash has returned 352.
C18_Witness ==
    /\ Len(AnimSequences) = 3
    /\ \A n \in 1..3 : AnimSequences[n].name = <<"A", "B", "C">>[n]
    /\ SplitDB.size = 0
    /\ CookComplete
    /\ binding.st = "bound"
    /\ binding.SequenceNameHash = AnimSequences[3].SequenceNameHash
    /\ binding.OffsetsRead = <<352>>

\* C19: cooking the same sorted clip list twice with the same settings yields the
\* same consolidated buffer, byte for byte, the padding included, and the same
\* offset table.
C19_CookReproducible ==
    \A first, second \in DOMAIN cooked :
        /\ cooked[first].CompressedBytes = cooked[second].CompressedBytes
        /\ cooked[first].CookedAnimSequenceMappings = cooked[second].CookedAnimSequenceMappings

\* The three artifacts of a cook are empty.
NoArtifact ==
    /\ CompressedBytes = <<>>
    /\ CookedAnimSequenceMappings = <<>>
    /\ StreamableBulkData = <<>>

\* C20: PreSave commits no partial artifact: the consolidated buffer, the offset
\* table and the bulk data are empty from its first step until the build and the
\* split have succeeded, and they are empty when PreSave has returned because the
\* save is not a cook, there is nothing to cook, or the build or the split failed.
C20_NoPartialArtifact ==
    /\ cookpc \in {"gather", "build", "split", "layout"} => NoArtifact
    /\ outcome \in {"not a cook", "nothing to cook", "failed to merge", "failed to split"}
         => NoArtifact
    /\ (cookpc \in {"idle", "runtime"} /\ ~CookComplete) => NoArtifact

\* After a complete cook, the next PreSave has failed to split: the artifacts of the
\* first cook are gone.
C20_Witness ==
    /\ cooked # <<>>
    /\ cooked[1].CookedAnimSequenceMappings # <<>>
    /\ cookpc = "idle"
    /\ outcome = "failed to split"
    /\ NoArtifact

----------------------------------------------------------------------------
\* The allocations of PreSave

\* Whether PreSave is not running: it has returned, or was never called.
PreSaveReturned == cookpc \in {"idle", "runtime"}

\* How many times the running or last PreSave gave the allocation back.
TimesDeallocated(a) == Cardinality({i \in DOMAIN Deallocated : Deallocated[i] = a})

\* The intermediate allocations of a PreSave that returned that way.
Intermediate(how) ==
    CASE how = "cooked" ->
             {Allocation("MergedDB", 0), Allocation("SplitDB", 0),
              Allocation("SplitDBBulkData", 0)} \cup ClipCopies
      [] how = "failed to split" -> {Allocation("MergedDB", 0)} \cup ClipCopies
      [] OTHER -> {}

----------------------------------------------------------------------------
\* Decoding in the cooked build

\* Whether no entry of the offset table carries the hash.
HashAbsent(hash) ==
    \A i \in DOMAIN CookedAnimSequenceMappings :
        HighBits(CookedAnimSequenceMappings[i]) # hash

C23_DecodeFallsBack ==
    (decompress.st # "none" /\ binding.CompressedByteStream.size > 0) =>
        /\ decompress.st = "decompressed"
        /\ decompress.calls = 1
        /\ decompress.Read = binding.CompressedByteStream
        /\ decompress.OutAtoms = binding.CompressedByteStream.clip
        /\ decompress.ACLContext =
              IF ~binding.DatabaseContext \/ ~decompress.InitResult
              THEN "clip" ELSE "database"

\* The pose of a bound clip was decoded after the database refused the clip.
C23_Witness ==
    /\ binding.st = "bound"
    /\ binding.DatabaseContext
    /\ decompress.routine = "DecompressPose"
    /\ decompress.st = "decompressed"
    /\ ~decompress.InitResult
    /\ decompress.ACLContext = "clip"

----------------------------------------------------------------------------
\* The null streamer

\* C24: each stream_in and each stream_out of the null streamer invokes its
\* continuation in the call, once and with success, whatever the offset and the
\* size, and leaves the streamer as it was constructed; is_initialized is true
\* exactly when the constructor was given a pointer that is not null, and
\* get_bulk_data is that pointer.
C24_NullStreamer ==
    nullcalls # <<>> =>
        /\ \A i \in 2..Len(nullcalls) :
              /\ nullcalls[i].op \in {"stream_in", "stream_out"}
              /\ nullcalls[i].continuation = <<TRUE>>
        /\ m_bulk_data = nullcalls[1].offset
        /\ m_bulk_data_size = nullcalls[1].size
        /\ NullIsInitialized <=> (nullcalls[1].offset # nullptr)
        /\ NullGetBulkData = nullcalls[1].offset

\* A streamer made with no bulk data streamed in at the highest offset, then out.
C24_Witness ==
    /\ Len(nullcalls) = 3
    /\ nullcalls[1].offset = nullptr
    /\ nullcalls[1].size = 0
    /\ nullcalls[2].op = "stream_in"
    /\ nullcalls[2].offset = WordRange - 1
    /\ nullcalls[3].op = "stream_out"
    /\ ~NullIsInitialized

----------------------------------------------------------------------------
\* The database of the cook

\* The names of the sequences the running PreSave cooks.
CookedNames == {CookedSequences[n].name : n \in DOMAIN CookedSequences}

----------------------------------------------------------------------------
\* The members a cook takes

\* The places of the member list whose sequence has a database codec that
\* references this database.
Referencing ==
    {i \in DOMAIN AnimSequences :
        AnimSequences[i].DatabaseCodec /\ AnimSequences[i].DatabaseAsset = "this"}

\* The n-th of those places, in the order of the member list.
NthReferencing(n) ==
    CHOOSE i \in Referencing : Cardinality({j \in Referencing : j <= i}) = n

\* The names of the members that are stale.
StaleNames ==
    {AnimSequences[i].name : i \in DOMAIN AnimSequences \ Referencing}

\* C26: a cooking PreSave cooks the members whose codec is a database codec that
\* references this database, all of them and in the order of the member list; a
\* stale member has no byte in the consolidated buffer, and the offset table has
\* one entry for each member that is not stale, with the hash of its name.
C26_CooksReferencingMembers ==
    /\ (cookpc \in {"build", "split", "layout", "copy"} \/ CookComplete) =>
          /\ Len(CookedSequences) = Cardinality(Referencing)
          /\ \A n \in DOMAIN CookedSequences :
                CookedSequences[n] = AnimSequences[NthReferencing(n)]
    /\ CookComplete =>
          /\ Len(CookedAnimSequenceMappings) = Cardinality(Referencing)
          /\ \A hash \in SequenceNameHashes :
                Cardinality({i \in DOMAIN CookedAnimSequenceMappings :
                                HighBits(CookedAnimSequenceMappings[i]) = hash})
                  = Cardinality({i \in Referencing :
                                    AnimSequences[i].SequenceNameHash = hash})
          /\ \A p \in DOMAIN CompressedBytes : CompressedBytes[p].src \notin StaleNames

\* A cook of three members, of which one references another database and one has
\* another codec, is complete and in the cooked build.
C26_Witness ==
    /\ cookpc = "runtime"
    /\ CookComplete
    /\ Len(AnimSequences) = 3
    /\ \E i \in DOMAIN AnimSequences : ~AnimSequences[i].DatabaseCodec
    /\ \E i \in DOMAIN AnimSequences :
          AnimSequences[i].DatabaseCodec /\ AnimSequences[i].DatabaseAsset # "this"
    /\ Len(CookedAnimSequenceMappings) = 1
    /\ CompressedBytes # <<>>

----------------------------------------------------------------------------
\* The Build action

\* The places of the project's sequences that are not transient and reference the
\* database through a codec of their compression settings.
ReferencingSequences ==
    {i \in DOMAIN Project :
        /\ ~Project[i].Transient
        /\ Project[i].BoneCompressionSettings
        /\ \E c \in DOMAIN Project[i].Codecs : Project[i].Codecs[c] = "this"}

\* Their path names, each once, in ascending order.
ReferencingList ==
    [n \in 1..Cardinality(ReferencingSequences) |->
        PathNames[CHOOSE i \in ReferencingSequences :
                      Cardinality({j \in ReferencingSequences : j <= i}) = n]]

\* An ExecuteBuild on a valid database runs to its end.
BuildCompletes ==
    /\ nbuilds' = nbuilds + 1
    /\ ExecutedBuild'.st # "invalid"

\* C27: after ExecuteBuild on a valid database, the member list is the list of the
\* sequences that are not transient and reference the database through a codec of
\* their settings, each listed once, whatever the member list was before.
C27_BuildListsReferencing ==
    [][BuildCompletes => AnimSequences' = ReferencingList]_vars

----------------------------------------------------------------------------
\* C28

\* The step of stream_in on which CreateStreamingRequest returns a request.
ReadCreated ==
    /\ pc = "si_create"
    /\ Len(reqs') = Len(reqs) + 1

\* The request a step has just created.
NewRequest == reqs'[Len(reqs')]

----------------------------------------------------------------------------
\* C29

\* stream_in call c has passed the three checkf and is on its way to the read.
PassedChecks(c) ==
    /\ cur.op = "stream_in"
    /\ cur.c = c
    /\ pc \in {"si_wait", "si_alloc", "si_create"}

\* The completion of call c has been invoked `n` times.
Invoked(c, n) == Cardinality(Places("cb", c)) = n

\* What the log holds of the completion of the stream_in call that reached
\* CreateStreamingRequest at place i: with no request, one invocation with failure
\* before the return; with a request, none before the read completes, and from then
\* on one, with success = ~bWasCancelled, and none by stream_in itself.
CompletionOf(i) ==
    LET c == log[i].c
        r == log[i].v IN
    IF r = nullptr
    THEN /\ Places("cb", c) = {i + 1}
         /\ log[i + 1].v = 0
    ELSE /\ log[i + 1] = Ev("return", c, 0)
         /\ IF reqs[r].st = "inflight"
            THEN Invoked(c, 0)
            ELSE /\ Invoked(c, 1)
                 /\ \A k \in Places("cb", c) :
                      /\ k > i + 1
                      /\ log[k].v = IF reqs[r].bWasCancelled THEN 0 ELSE 1

\* C29: every stream_in call that passes its checks has its completion invoked
\* exactly once: by the read's completion, with success = not cancelled, when the
\* request was created, or by stream_in itself, with failure, when it was not;
\* never twice, and, every read the I/O service accepted completing and the process
\* not aborting, never zero times.
C29_CompletionExactlyOnce ==
    /\ [](\A i \in DOMAIN log : log[i].e = "create" => CompletionOf(i))
    /\ \A c \in 1..MaxCalls :
         PassedChecks(c) ~> (pc = "crashed" \/ Invoked(c, 1))

\* The completion of one call has been invoked by stream_in, with failure, and
\* that of the next one by the read it started, which was not cancelled.
C29_Witness ==
    \E i, j \in DOMAIN log :
        /\ i < j
        /\ log[i].e = "create" /\ log[i].v = nullptr
        /\ log[i + 1] = Ev("cb", log[i].c, 0)
        /\ log[j].e = "create" /\ log[j].v # nullptr
        /\ reqs[log[j].v].st = "done"
        /\ ~reqs[log[j].v].bWasCancelled
        /\ Invoked(log[j].c, 1)
        /\ Logged("cb", log[j].c, 1)

----------------------------------------------------------------------------
\* C30

\* A step of a stream_in call: its entry, or one of its steps up to its return.
StreamInStep ==
    \/ cur.op = "stream_in" /\ pc \in {"si_wait", "si_alloc", "si_create"}
    \/ pc = "idle" /\ cur'.op = "stream_in"

\* The step releases a buffer: delete[] of it, or the pointer to it given up.
Releases ==
    \/ \E b \in DOMAIN bufs : bufs'[b].st # bufs[b].st
    \/ BulkDataPtr # nullptr /\ BulkDataPtr' # BulkDataPtr

\* C30: no step of stream_in frees a buffer or gives up the pointer to one:
\* BulkDataPtr stays as it is or goes from null to a buffer allocated on that step;
\* the steps that release the buffer are the deallocating step of a stream_out with
\* CanDeallocateBulkData and the delete[] of the destructor; and while a decode
\* call is in progress the pointer of the streamer is null or a live buffer.
C30_StreamInKeepsBuffer ==
    /\ [][StreamInStep =>
            /\ \A b \in DOMAIN bufs : bufs'[b] = bufs[b]
            /\ \/ BulkDataPtr' = BulkDataPtr
               \/ /\ BulkDataPtr = nullptr
                  /\ BulkDataPtr' = Len(bufs) + 1
                  /\ bufs' = Append(bufs, [st |-> "live", size |-> BulkDataSize])]_vars
    /\ [][Releases =>
            \/ pc = "so_free" /\ cur.op = "stream_out" /\ cur.flag
            \/ pc = "dtor_free"]_vars
    /\ []((decoding > 0 /\ streamer = "live" /\ BulkDataPtr # nullptr)
              => bufs[BulkDataPtr].st = "live")

\* A stream_in call has allocated its buffer and is about to issue its read while
\* a decode call is in progress, after a stream_out has released an earlier buffer.
C30_Witness ==
    /\ decoding > 0
    /\ cur.op = "stream_in"
    /\ pc = "si_create"
    /\ Len(bufs) = 2
    /\ bufs[1].st = "freed"
    /\ BulkDataPtr = 2
    /\ bufs[2].st = "live"

----------------------------------------------------------------------------
\* C31

\* The step on which a stream_in called with CanAllocateBulkData returns without
\* a request: CreateStreamingRequest returned nullptr.
AllocatingReadNotStarted ==
    /\ pc = "si_create"
    /\ cur.flag
    /\ Len(reqs') = Len(reqs)

\* C31: when a stream_in with can_allocate=true cannot start its read, the buffer
\* that call allocated is still the resident buffer, live, when the call returns
\* (get_bulk_data is non-null), nothing has been freed, and no request is pending.
C31_FailedReadKeepsBuffer ==
    [][AllocatingReadNotStarted =>
          /\ pc' = "idle"
          /\ Logged("alloc", cur.c, BulkDataPtr)
          /\ BulkDataPtr' = BulkDataPtr
          /\ BulkDataPtr' # nullptr
          /\ bufs' = bufs
          /\ bufs'[BulkDataPtr'].st = "live"
          /\ PendingIORequest' = nullptr]_vars

\* A stream_in with can_allocate=true has allocated, failed to start its read,
\* notified the failure and returned: the buffer is resident, no request pending.
C31_Witness ==
    /\ pc = "idle"
    /\ Len(log) >= 5
    /\ log[Len(log) - 4].e = "stream_in" /\ log[Len(log) - 4].v = 1
    /\ log[Len(log) - 3] = Ev("alloc", log[Len(log)].c, BulkDataPtr)
    /\ log[Len(log) - 2] = Ev("create", log[Len(log)].c, nullptr)
    /\ log[Len(log) - 1].e = "cb" /\ log[Len(log) - 1].v = 0
    /\ log[Len(log)].e = "return"
    /\ get_bulk_data # nullptr
    /\ bufs[get_bulk_data].st = "live"
    /\ PendingIORequest = nullptr

----------------------------------------------------------------------------
\* C32

\* BeginDestroy has run to its end on the asset.
Destroyed ==
    /\ asset = "destroyed"
    /\ pc = "idle"

\* The ticker fires a queued stream-out callback.
CallbackFires ==
    /\ phase = "tick"
    /\ ticked # <<>>
    /\ Len(ticked') = Len(ticked) - 1

\* C32: a stream-out callback that runs after BeginDestroy has completed finds the
\* database context uninitialized, takes the branch of the unused context, and
\* does nothing to the streamer: no call enters it, nothing of its state changes,
\* and the context's stream_out is not called.
C32_CallbackAfterDestroy ==
    [][(Destroyed /\ CallbackFires) =>
          /\ ~DatabaseContext.init
          /\ \E k \in DOMAIN ticked : log' = Append(log, Ev("StreamOutFun", 0, ticked[k]))
          /\ UNCHANGED <<pc, cur, ncalls, streamer, BulkDataSize, BulkDataPtr,
                         PendingIORequest, bufs, reqs, DatabaseContext>>]_vars

\* A callback queued while the data was resident has run after BeginDestroy reset
\* the context and deleted the streamer with its buffer.
C32_Witness ==
    /\ Destroyed
    /\ streamer = "freed"
    /\ log[Len(log)].e = "StreamOutFun"
    /\ \E q, b, f, d \in DOMAIN log :
         /\ q < b /\ b < f /\ f < d
         /\ log[q] = Ev("StreamDatabaseOut", 0, log[Len(log)].v)
         /\ log[b].e = "BeginDestroy"
         /\ log[f].e = "free" /\ log[f].c = 0
         /\ log[d].e = "deleted"

----------------------------------------------------------------------------
\* C33

\* The values of the events `e` of the log, in the order they were logged.
RECURSIVE ValuesOf(_, _)
ValuesOf(e, n) ==
    IF n = 0 THEN <<>>
    ELSE IF log[n].e = e THEN Append(ValuesOf(e, n - 1), log[n].v)
    ELSE ValuesOf(e, n - 1)

\* The calls of StreamDatabaseOut, and the callbacks that have run.
Queued == ValuesOf("StreamDatabaseOut", Len(log))
Ran == ValuesOf("StreamOutFun", Len(log))

\* How many times v is in the sequence.
Times(seq, v) == Cardinality({k \in DOMAIN seq : seq[k] = v})

\* The tick has fired all it had to fire.
TickDone ==
    /\ phase = "tick"
    /\ ticked = <<>>
    /\ pc = "idle"

\* C33, as stated: the callbacks run once each in the order of the calls of
\* StreamDatabaseOut that queued them.
C33_CallbacksInCallOrder ==
    /\ Queued = Ran \o ticked \o ticker
    /\ TickDone => Ran = Queued

\* C33, amended: each call of StreamDatabaseOut queues one callback, and each
\* callback runs once and is not queued again: every call is, exactly once, in the
\* callbacks that have run or in those the ticker holds, and after the tick that
\* follows N calls the callbacks of the N calls have run, once each.  The order
\* in which they run is the ticker's.
C33_CallbacksOnceEach ==
    /\ \A k \in DOMAIN Queued :
         /\ Times(Queued, Queued[k]) = 1
         /\ Times(Ran \o ticked \o ticker, Queued[k]) = 1
    /\ Len(Ran) + Len(ticked) + Len(ticker) = Len(Queued)
    /\ phase = "update" => ticked = <<>>
    /\ phase = "tick" => ticker = <<>>
    /\ TickDone => Len(Ran) = Len(Queued)

\* Two calls of StreamDatabaseOut, and the tick that followed has run the
\* callback of the second call, then that of the first.
C33_Witness ==
    /\ TickDone
    /\ Len(Queued) = 2
    /\ Ran = <<Queued[2], Queued[1]>>

----------------------------------------------------------------------------
\* C34

\* A step that is a call of StreamDatabaseIn: an operation on the asset that
\* queues nothing on the ticker.
StreamDatabaseInStep ==
    /\ nops' = nops + 1
    /\ ticker' = ticker

\* How many calls of the database context's stream_in the log holds.
ContextStreamIns(l) == Cardinality({i \in DOMAIN l : l[i].e = "ctx.stream_in"})

\* C34: in the editor, StreamDatabaseIn on an asset whose database context is not
\* initialized touches no streamer and leaves PreviewState = HighQuality,
\* whatever it was, so that a second call changes nothing; with the context
\* initialized it calls the context's stream_in once and leaves PreviewState as
\* it was.
C34_StreamInPreview ==
    [][(StreamDatabaseInStep /\ WithEditorOnlyData) =>
          IF DatabaseContext.init
          THEN /\ PreviewState' = PreviewState
               /\ ContextStreamIns(log') = ContextStreamIns(log) + 1
          ELSE /\ PreviewState' = "HighQuality"
               /\ UNCHANGED <<streamerVars, DatabaseContext>>]_vars

\* The callback of a StreamDatabaseOut has taken the preview to LowQuality, and two
\* calls of StreamDatabaseIn have left it at HighQuality.
C34_Witness ==
    /\ WithEditorOnlyData
    /\ ~DatabaseContext.init
    /\ PreviewState = "HighQuality"
    /\ nops = 3
    /\ Len(Queued) = 1
    /\ Len(Ran) = 1

----------------------------------------------------------------------------
\* C35

\* A step that is a call of StreamDatabaseOut: an operation on the asset that
\* queues a callback on the ticker.
StreamDatabaseOutStep ==
    /\ nops' = nops + 1
    /\ Len(ticker') = Len(ticker) + 1

\* C35: in the editor, with the database context not initialized, the call of
\* StreamDatabaseOut leaves PreviewState as it is and the queued callback, when it
\* runs, leaves it at LowQuality whatever it was; PreviewState becomes LowQuality
\* on no other step; and once it is not None, no step of StreamDatabaseIn,
\* StreamDatabaseOut or the callback takes it back to None.
C35_StreamOutPreview ==
    /\ [][(WithEditorOnlyData /\ ~DatabaseContext.init) =>
            /\ StreamDatabaseOutStep => PreviewState' = PreviewState
            /\ CallbackFires => PreviewState' = "LowQuality"]_vars
    /\ [][(PreviewState' = "LowQuality" /\ PreviewState # "LowQuality") => CallbackFires]_vars
    /\ [][PreviewState # "None" => PreviewState' # "None"]_vars

\* The preview went to HighQuality, a callback took it to LowQuality, and a later
\* call of StreamDatabaseOut, whose callback is still queued, left it there.
C35_Witness ==
    /\ WithEditorOnlyData
    /\ ~DatabaseContext.init
    /\ PreviewState = "LowQuality"
    /\ nops = 3
    /\ Len(Queued) = 2
    /\ Len(Ran) = 1
    /\ Len(ticker) = 1

----------------------------------------------------------------------------
\* C36

\* A step that is a decode in the editor.
EditorDecodeStep ==
    /\ nops' = nops + 1
    /\ PreviewState' = PreviewState

\* The calls of stream_in the streamer of the last decode has had.
StreamIns(calls) == {k \in DOMAIN calls : calls[k].op = "stream_in"}

\* C36: a decode in the editor streams the sequence's database context in, once,
\* exactly when the preview state of the codec's database asset is not
\* LowQuality, a codec without a database asset counting as None; with
\* LowQuality the streamer gets no call, and in both cases the clip is decoded.
C36_DecodeStreamsInByPreview ==
    [][(EditorDecodeStep /\ decompress'.st # "crashed") =>
          /\ decompress'.st = "decompressed"
          /\ decompress'.calls = 1
          /\ nullcalls'[1].op = "NullDatabaseStreamer"
          /\ IF asset # "none" /\ PreviewState = "LowQuality"
             THEN Len(nullcalls') = 1
             ELSE /\ Len(nullcalls') = 2
                  /\ StreamIns(nullcalls') = {2}
                  /\ nullcalls'[2].continuation = <<TRUE>>]_vars

\* A clip has been decoded with the preview at LowQuality: nothing was streamed
\* in.
C36_Witness ==
    /\ asset = "loaded"
    /\ PreviewState = "LowQuality"
    /\ nops = 1
    /\ decompress.st = "decompressed"
    /\ decompress.calls = 1
    /\ StreamIns(nullcalls) = {}

----------------------------------------------------------------------------
\* C37

\* The step on which PostLoad returns.
PostLoadReturns ==
    /\ asset = "constructed"
    /\ asset' = "loaded"

\* C37: when PostLoad returns, the asset has a streamer and an initialized
\* database context exactly when CompressedBytes is not empty; the streamer is
\* made live with the bulk data size the database records, no buffer and no
\* request pending; and the loaded asset keeps streamer and context together.
\* With empty CompressedBytes there is never a streamer, the context stays
\* uninitialized, and BeginDestroy neither resets the context nor deletes
\* anything.
C37_PostLoadBinds ==
    /\ [][PostLoadReturns =>
            IF CompressedBytes # <<>>
            THEN /\ DatabaseStreamer'
                 /\ streamer' = "live"
                 /\ DatabaseContext' = [init |-> TRUE, streaming |-> FALSE,
                                        resident |-> FALSE]
                 /\ BulkDataSize' = SplitDB.bulk
                 /\ BulkDataPtr' = nullptr
                 /\ PendingIORequest' = nullptr
            ELSE /\ ~DatabaseStreamer'
                 /\ streamer' = "none"
                 /\ DatabaseContext' = NoContext]_vars
    /\ [](asset = "loaded" =>
             /\ DatabaseStreamer <=> CompressedBytes # <<>>
             /\ DatabaseContext.init <=> CompressedBytes # <<>>)
    /\ [](CompressedBytes = <<>> =>
             /\ streamer = "none"
             /\ ~DatabaseStreamer
             /\ DatabaseContext = NoContext
             /\ pc = "idle"
             /\ \A i \in DOMAIN log : log[i].e \notin {"reset", "deleted", "wait"})

\* PostLoad has returned on an asset with cooked bytes: the streamer is there for
\* the largest bulk data size, with no buffer and no request, and the context is
\* initialized with nothing resident.
C37_Witness ==
    /\ asset = "loaded"
    /\ CompressedBytes # <<>>
    /\ DatabaseStreamer
    /\ streamer = "live"
    /\ BulkDataSize = WordRange - 1
    /\ BulkDataSize = SplitDB.bulk
    /\ get_bulk_data = nullptr
    /\ PendingIORequest = nullptr
    /\ DatabaseContext = [init |-> TRUE, streaming |-> FALSE, resident |-> FALSE]
    /\ ncalls = 0

----------------------------------------------------------------------------
\* The order and the dirty mark of the Build action

\* A step of ExecuteBuild.
ExecuteBuildStep == nbuilds' = nbuilds + 1

\* The list is in ascending order of path name; a sequence listed twice is next
\* to itself.
SortedByPathName(list) ==
    \A i, j \in DOMAIN list : i < j => PathIndex(list[i]) <= PathIndex(list[j])

\* What a build gathers from the project as it is, sorted, in the iterator's
\* first order.
GatheredNow ==
    SortByPathName(Gather(CHOOSE order \in IterationOrders :
                              \A i \in DOMAIN order : order[i] = i, 1))

\* The last build ran on a valid database and gathered what the project holds
\* now: nothing that references the database has changed since.
BuiltBeforeUnchanged ==
    /\ ExecutedBuild.st \in {"swapped", "same", "nothing gathered"}
    /\ ExecutedBuild.gathered = GatheredNow

\* C38: ExecuteBuild stores the members in ascending order of path name; it
\* replaces the member list and marks the package dirty, both or neither, and
\* only when the gathered sorted list differs from the stored one in length or at
\* some index; an ExecuteBuild after one that gathered the same sequences changes
\* neither the member list nor the dirty mark.
C38_BuildSortedAndIdempotent ==
    /\ [][ExecuteBuildStep =>
            /\ SortedByPathName(AnimSequences')
            /\ \/ UNCHANGED <<AnimSequences, MarkedDirty>>
               \/ /\ ExecutedBuild'.gathered # AnimSequences
                  /\ \/ Len(ExecutedBuild'.gathered) # Len(AnimSequences)
                     \/ \E i \in DOMAIN AnimSequences :
                           ExecutedBuild'.gathered[i] # AnimSequences[i]
                  /\ SortedByPathName(ExecutedBuild'.gathered)
                  /\ AnimSequences' = ExecutedBuild'.gathered
                  /\ MarkedDirty' = MarkedDirty + 1
            /\ ExecutedBuild'.st # "invalid" => ExecutedBuild'.gathered = GatheredNow
            /\ BuiltBeforeUnchanged => UNCHANGED <<AnimSequences, MarkedDirty>>]_vars
    /\ [](SortedByPathName(AnimSequences))

\* A second build of a project with three referencing sequences, one of them
\* through two codecs, found the members as the first build had stored them: the
\* package was marked dirty once.
C38_Witness ==
    /\ nbuilds = 2
    /\ ExecutedBuild.st = "same"
    /\ MarkedDirty = 1
    /\ Len(AnimSequences) = 4
    /\ AnimSequences = GatheredNow

----------------------------------------------------------------------------
\* The two passes of PreSave and the width of the offset

\* C39: after a cooking PreSave, for every cooked clip the offset the first pass
\* recorded in the offset table is the place the second pass copied the clip to,
\* the clip ends within the consolidated buffer, and the byte of the buffer at the
\* recorded offset is the first byte of that clip.
C39_PassesAgreeInBounds ==
    CookComplete =>
        LET Clips == CookedSequences
            T == CookedAnimSequenceMappings IN
        \A n \in DOMAIN Clips :
            \E i \in DOMAIN T :
                /\ HighBits(T[i]) = Clips[n].SequenceNameHash
                /\ LowBits(T[i]) = CopiedOffset(Clips, SplitDB.size, n)
                /\ LowBits(T[i]) + Clips[n].size <= Len(CompressedBytes)
                /\ CompressedBytes[LowBits(T[i]) + 1] = [src |-> Clips[n].name, i |-> 0]

\* The byte position of clip n in a layout without a width: the end of the clip
\* before it, or of the database, rounded up to the alignment.
RECURSIVE TrueEnd(_, _, _)
TruePosition(Clips, CompressedDatabaseSize, n) ==
    ((TrueEnd(Clips, CompressedDatabaseSize, n - 1) + (ClipAlignment - 1))
        \div ClipAlignment) * ClipAlignment

TrueEnd(Clips, CompressedDatabaseSize, n) ==
    IF n = 0 THEN CompressedDatabaseSize
    ELSE TruePosition(Clips, CompressedDatabaseSize, n) + Clips[n].size

\* C40: every offset PreSave records is the true byte position of its clip: the
\* sum of the database's size, the clips' sizes and the padding never wraps in the
\* offset's width, and no recorded offset is below the end of an earlier clip.
C40_OffsetNeverWraps ==
    CookedAnimSequenceMappings # <<>> =>
        LET Clips == CookedSequences
            recorded == [n \in DOMAIN Clips |-> MappedOffset(Clips, SplitDB.size, n)] IN
        \A n \in DOMAIN Clips :
            /\ recorded[n] = TruePosition(Clips, SplitDB.size, n)
            /\ \A m \in 1..(n - 1) : recorded[m] + Clips[m].size <= recorded[n]


====
